---------------------------- MODULE Spec2Model ----------------------------
(***************************************************************************)
(* Model of src/services/sheets.py (SheetsService: the TTL cache, the      *)
(* entity accessors and mutators, the invoice lifecycle and the payment    *)
(* transaction) and of the reading conversation of bot/handlers/tenant.py. *)
(*                                                                         *)
(* The remote spreadsheet is the store: one sequence of rows per sheet.    *)
(* Cells the sheet computes by formula (a meter's tariff, consumption and  *)
(* amount, an invoice's amount and status) are not stored: they are        *)
(* evaluated when rows are read, as get_all_records returns values.        *)
(***************************************************************************)
EXTENDS Integers, Sequences, FiniteSets, TLC

(***************************************************************************)
(* Bounds of the model.                                                    *)
(***************************************************************************)
MaxReading == 2      \* meter readings are drawn from 0..MaxReading
MaxTariff == 2       \* tariff values are drawn from 1..MaxTariff
MaxReadings == 1     \* rows the bot appends to the readings log
MaxPayments == 2     \* rows the bot appends to the payment log
MaxAdded == 1        \* premises, tenants and meters added by the bot
MaxSubmissions == 2  \* readings submitted through the tenant conversations
MaxCalls == 1        \* mutator calls explored by SpecCache
MaxNow == 120        \* the clock stops here (seconds)
TickStep == 60       \* seconds per clock step
MaxRows == 2         \* rows of the record lists the queries are applied to

(***************************************************************************)
(* Program constants.                                                      *)
(***************************************************************************)
CACHE_TTL == 120

VARIABLES
    premises,   \* sheet "Помещения": rows [id, name]
    tenants,    \* sheet "Арендаторы": rows [telegram_id, is_owner]
    meters,     \* sheet "Счетчики": the cells the bot writes
    readings,   \* sheet "Показания": append-only log
    invoices,   \* sheet "Счета": one row per premise
    payments,   \* sheet "Оплаты": append-only log
    tariffs,    \* sheet "Тарифы": rows [type, value]
    cache,      \* SheetsService._cache: key -> [data, time]
    now,        \* time.time()
    pay,        \* the process_payment call in progress (its position and arguments)
    conv,       \* context.user_data and conversation state, per user
    lastOp,     \* history: the service call that returned last
    calls,      \* history: the number of mutator calls made (SpecCache bounds it)
    q,          \* the records a read-only query is applied to, and its result
    fetch,      \* the calls of cached accessors in progress, per caller
    sweep,      \* the runs of process_invoice_push_notifications in progress, per run
    month_now,  \* the calendar month of datetime.now()
    txn         \* the store calls of the mutators in progress, per caller

vars == <<premises, tenants, meters, readings, invoices, payments, tariffs,
          cache, now, pay, conv, lastOp, calls, q, fetch, sweep, month_now, txn>>

store == <<premises, tenants, meters, readings, invoices, payments, tariffs>>

ReadingValues == 0..MaxReading
TariffValues == 1..MaxTariff
PremiseIds == 1..(2 + MaxAdded)
TenantIds == {1, 2}
MeterIds == 1..(3 + MaxAdded)
TariffTypes == {"electricity", "water"}
Receipts == {"r1", "r2"}
Today == "today"        \* datetime.now().strftime("%Y-%m-%d"): the model's clock stays within one day
NoDate == ""
\* datetime.now().strftime("%Y-%m-%d %H:%M") as <<year-month, rest>>, and its "%Y-%m" prefix
Stamp == <<month_now, 1>>
CurrentMonth == <<month_now>>
UNPAID_TEXT == "Ne oplachen"   \* the text "Не оплачен"

RECURSIVE SumSeq(_)
SumSeq(s) == IF s = <<>> THEN 0 ELSE Head(s) + SumSeq(Tail(s))

Indices(s) == 1..Len(s)

\* Index of the first row of s whose field is matched by Test, 0 when none:
\* the "for i, record in enumerate(records, start=2): if ...: break" loops.
FirstIndex(s, Test(_)) ==
    IF \E i \in Indices(s) : Test(s[i])
    THEN CHOOSE i \in Indices(s) : Test(s[i]) /\ \A j \in 1..(i - 1) : ~Test(s[j])
    ELSE 0

MaxOf(S) == IF S = {} THEN 0 ELSE CHOOSE x \in S : \A y \in S : y <= x

(***************************************************************************)
(* Cells computed by the spreadsheet.                                      *)
(***************************************************************************)
\* Тариф of a meter: looked up in "Тарифы" by the meter's type.
TariffOf(type) ==
    LET i == FirstIndex(tariffs, LAMBDA r : r.type = type)
    IN  IF i = 0 THEN 0 ELSE tariffs[i].value

\* Расход к оплате: what was read and is not paid yet.
Consumption(m) == m.last_reading - m.paid_reading

\* Сумма к оплате.
MeterAmount(m) == Consumption(m) * TariffOf(m.type)

\* The records get_all_records returns for "Счетчики".
MeterRecord(m) ==
    [id |-> m.id, premise_id |-> m.premise_id, type |-> m.type,
     resp_readings |-> m.resp_readings, resp_payment |-> m.resp_payment,
     last_reading |-> m.last_reading, last_date |-> m.last_date,
     paid_reading |-> m.paid_reading, paid_date |-> m.paid_date,
     tariff |-> TariffOf(m.type), consumption |-> Consumption(m),
     amount |-> MeterAmount(m)]

MeterRecords == [i \in Indices(meters) |-> MeterRecord(meters[i])]

\* Сумма of an invoice row: the formula over the premise's meters, unless a
\* value was written into the cell (update_invoice_amount does).
InvoiceSum(inv) ==
    IF inv.sum_formula
    THEN SumSeq([i \in Indices(meters) |->
                    IF meters[i].premise_id = inv.premise_id
                    THEN MeterAmount(meters[i]) ELSE 0])
    ELSE inv.sum_value

\* Статус of an invoice row, from its issued amount and its amount.
InvoiceStatus(inv) ==
    IF ~inv.status_formula THEN ""
    ELSE IF inv.issued_text \/ inv.issued > 0 THEN "Unpaid"
    ELSE IF InvoiceSum(inv) > 0 THEN "Draft"
    ELSE "Paid"

\* The records _get_all_invoices returns (with the row number it adds).
InvoiceRecord(inv, i) ==
    [row |-> i + 1, premise_id |-> inv.premise_id, resp_payment |-> inv.resp_payment,
     sum |-> InvoiceSum(inv), issued |-> inv.issued, issued_text |-> inv.issued_text,
     status |-> InvoiceStatus(inv), need_push |-> inv.need_push,
     pay_date |-> inv.pay_date]

InvoiceRecords == [i \in Indices(invoices) |-> InvoiceRecord(invoices[i], i)]

\* The dict _get_all_settings builds from the sheet "Настройки", which the bot
\* never writes.
SettingsRecords == [payment_details |-> "details"]

\* The records get_tariffs returns (with the row number it adds).
TariffRecords ==
    [i \in Indices(tariffs) |-> [row |-> i + 1, type |-> tariffs[i].type,
                                 value |-> tariffs[i].value]]

(***************************************************************************)
(* The TTL cache.                                                          *)
(***************************************************************************)
CacheKeys == {"premises", "tenants_raw", "meters", "readings", "invoices", "tariffs"}

\* A key that does not name the month.
readings_map_key_unscoped == "readings_map_1"

\* _get_current_month_meter_readings_map: cache_key = f"readings_map_{current_month}"
readings_map_key == IF month_now = 1 THEN "readings_map_1" ELSE "readings_map_2"

\* invalidate_cache(pattern=None): the default argument
None == "None"

\* The characters of the strings used as cache keys and invalidation patterns.
Chars(s) ==
    CASE s = "premises"    -> <<"p", "r", "e", "m", "i", "s", "e", "s">>
      [] s = "tenants_raw" -> <<"t", "e", "n", "a", "n", "t", "s", "_", "r", "a", "w">>
      [] s = "tenants"     -> <<"t", "e", "n", "a", "n", "t", "s">>
      [] s = "meters"      -> <<"m", "e", "t", "e", "r", "s">>
      [] s = "readings"    -> <<"r", "e", "a", "d", "i", "n", "g", "s">>
      [] s = "invoices"    -> <<"i", "n", "v", "o", "i", "c", "e", "s">>
      [] s = "tariffs"     -> <<"t", "a", "r", "i", "f", "f", "s">>
      [] s = "settings"    -> <<"s", "e", "t", "t", "i", "n", "g", "s">>
      [] s = "readings_map_1" ->
            <<"r", "e", "a", "d", "i", "n", "g", "s", "_", "m", "a", "p", "_", "1">>
      [] s = "readings_map_2" ->
            <<"r", "e", "a", "d", "i", "n", "g", "s", "_", "m", "a", "p", "_", "2">>

\* Python's "pattern in k" on strings.
Contains(pattern, k) ==
    LET p == Chars(pattern)
        c == Chars(k)
    IN  \E i \in 1..(Len(c) - Len(p) + 1) : SubSeq(c, i, i + Len(p) - 1) = p

Without(c, keys) == [k \in (DOMAIN c) \ keys |-> c[k]]

\* A lookup that still answers at the moment the entry reaches the TTL.
cache_hit_inclusive(c, key) == key \in DOMAIN c /\ now - c[key].time <= CACHE_TTL

\* _get_cached: whether the lookup returns the stored value.
cache_hit(c, key) == key \in DOMAIN c /\ now - c[key].time < CACHE_TTL

\* _get_cached: the cache after the lookup (an expired entry is deleted).
get_cached(c, key) ==
    IF key \in DOMAIN c /\ ~(now - c[key].time < CACHE_TTL) THEN Without(c, {key}) ELSE c

\* _set_cached
set_cached(c, key, data) ==
    [k \in (DOMAIN c) \cup {key} |-> IF k = key THEN [data |-> data, time |-> now] ELSE c[k]]

\* An invalidation that drops only the key equal to the pattern.
invalidate_cache_exact(c, pattern) == Without(c, {k \in DOMAIN c : k = pattern})

\* An invalidation without the clear-all default: None matches no key.
invalidate_cache_no_default(c, pattern) ==
    Without(c, {k \in DOMAIN c : pattern # None /\ Contains(pattern, k)})

\* invalidate_cache(pattern)
invalidate_cache(c, pattern) ==
    IF pattern = None THEN <<>> ELSE Without(c, {k \in DOMAIN c : Contains(pattern, k)})

\* What get_all_records returns for the sheet behind a cache key.
StoreRecords(key) ==
    CASE key = "premises"    -> premises
      [] key = "tenants_raw" -> tenants
      [] key = "meters"      -> MeterRecords
      [] key = "readings"    -> readings
      [] key = "invoices"    -> InvoiceRecords
      [] key = "tariffs"     -> TariffRecords
      [] key = "settings"    -> SettingsRecords

\* The value a cached get-all accessor returns in the current state.
ReadResult(key) == IF cache_hit(cache, key) THEN cache[key].data ELSE StoreRecords(key)

\* The cache after a cached get-all accessor has run.
ReadCache(c, key) ==
    IF cache_hit(c, key) THEN c ELSE set_cached(get_cached(c, key), key, StoreRecords(key))

(***************************************************************************)
(* Row operations of the mutators: what each writes to its sheet.          *)
(***************************************************************************)
\* add_premise._add: new_id = max(ids, default=0) + 1; append_row.
add_premise_rows(rows) ==
    Append(rows, [id |-> MaxOf({rows[i].id : i \in Indices(rows)}) + 1])

\* add_tenant._add: append_row([telegram_id, name, phone, "FALSE"]).
add_tenant_rows(rows, telegram_id) ==
    Append(rows, [telegram_id |-> telegram_id, is_owner |-> "FALSE"])

\* add_meter._add: columns up to "Дата посл. оплаты"; readings start at 0.
add_meter_rows(rows, premise_id, type, resp_readings, resp_payment) ==
    Append(rows, [id |-> MaxOf({rows[i].id : i \in Indices(rows)}) + 1,
                  premise_id |-> premise_id, type |-> type,
                  resp_readings |-> resp_readings, resp_payment |-> resp_payment,
                  last_reading |-> 0, last_date |-> NoDate,
                  paid_reading |-> 0, paid_date |-> NoDate])

\* A meter update that writes the paid-reading columns N{i}:O{i}.
update_meter_paid_columns(rows, meter_id, reading) ==
    LET i == FirstIndex(rows, LAMBDA r : r.id = meter_id)
    IN  IF i = 0 THEN rows
        ELSE [rows EXCEPT ![i].paid_reading = reading, ![i].paid_date = Today]

\* update_meter_last_reading._update: L{i}:M{i} of the first row with the id.
update_meter_last_reading_rows(rows, meter_id, reading) ==
    LET i == FirstIndex(rows, LAMBDA r : r.id = meter_id)
    IN  IF i = 0 THEN rows
        ELSE [rows EXCEPT ![i].last_reading = reading, ![i].last_date = Today]

\* save_reading._save: the row appended to the readings log.
save_reading_rows(rows, meter_id, premise_id, telegram_id, reading) ==
    Append(rows, [date |-> Stamp, meter_id |-> meter_id, premise_id |-> premise_id,
                  telegram_id |-> telegram_id, value |-> reading])

\* issue_invoice._issue: update_cell(i, 6, Сумма) on the first row of the premise.
issue_invoice_found(rows, premise_id) ==
    FirstIndex(rows, LAMBDA r : r.premise_id = premise_id) # 0

\* An issue that copies the amount of the cached invoice record.
issue_invoice_rows_cached(rows, premise_id) ==
    LET i == FirstIndex(rows, LAMBDA r : r.premise_id = premise_id)
        recs == ReadResult("invoices")
    IN  IF i = 0 THEN rows
        ELSE [rows EXCEPT ![i].issued = IF i <= Len(recs) THEN recs[i].sum
                                        ELSE InvoiceSum(rows[i]),
                          ![i].issued_text = FALSE]

\* An issue that also flags the row for the push sweep.
issue_invoice_rows_push(rows, premise_id) ==
    LET i == FirstIndex(rows, LAMBDA r : r.premise_id = premise_id)
    IN  IF i = 0 THEN rows
        ELSE [rows EXCEPT ![i].issued = InvoiceSum(rows[i]), ![i].issued_text = FALSE,
                          ![i].need_push = "i1"]

issue_invoice_rows(rows, premise_id) ==
    LET i == FirstIndex(rows, LAMBDA r : r.premise_id = premise_id)
    IN  IF i = 0 THEN rows
        ELSE [rows EXCEPT ![i].issued = InvoiceSum(rows[i]), ![i].issued_text = FALSE]

\* update_invoice_amount._update: the total and the responsible party it
\* reads from the premise's meters.
invoice_total(premise_id) ==
    SumSeq([i \in Indices(meters) |->
               IF meters[i].premise_id = premise_id THEN MeterAmount(meters[i]) ELSE 0])

invoice_responsible(premise_id) ==
    LET i == FirstIndex(meters, LAMBDA r : r.premise_id = premise_id)
    IN  IF i = 0 THEN 0 ELSE meters[i].resp_payment

\* update_invoice_amount._update: update_cell(i, 5, total) on the premise's
\* row, or append_row([premise_id, name, responsible, name, total,
\* "Не оплачен", ""]) when there is none and total > 0.
update_invoice_amount_write(rows, premise_id, i, total, responsible) ==
    IF i # 0
    THEN [rows EXCEPT ![i].sum_formula = FALSE, ![i].sum_value = total]
    ELSE IF total > 0
    THEN Append(rows, [premise_id |-> premise_id,
                       resp_payment |-> responsible,
                       sum_formula |-> FALSE, sum_value |-> total,
                       issued |-> 0, issued_text |-> TRUE,
                       status_formula |-> FALSE,
                       need_push |-> "", pay_date |-> NoDate])
    ELSE rows

\* update_invoice_amount._update run without interruption.
update_invoice_amount_rows(rows, premise_id) ==
    update_invoice_amount_write(rows, premise_id,
                                FirstIndex(rows, LAMBDA r : r.premise_id = premise_id),
                                invoice_total(premise_id), invoice_responsible(premise_id))

\* mark_invoice_paid._mark, first write: F{i} = 0.
mark_invoice_paid_amount(rows, premise_id) ==
    LET i == FirstIndex(rows, LAMBDA r : r.premise_id = premise_id)
    IN  IF i = 0 THEN rows
        ELSE [rows EXCEPT ![i].issued = 0, ![i].issued_text = FALSE]

\* mark_invoice_paid._mark, second write: I{i} = today.
mark_invoice_paid_date(rows, premise_id) ==
    LET i == FirstIndex(rows, LAMBDA r : r.premise_id = premise_id)
    IN  IF i = 0 THEN rows ELSE [rows EXCEPT ![i].pay_date = Today]

\* A reset that stamps the payment date and leaves the issued amount.
mark_invoice_paid_date_only(rows, premise_id) == mark_invoice_paid_date(rows, premise_id)

mark_invoice_paid_rows(rows, premise_id) ==
    mark_invoice_paid_date(mark_invoice_paid_amount(rows, premise_id), premise_id)

\* A clear that leaves the flag as it is.
clear_need_push_rows_kept(rows, premise_id) == rows

\* clear_need_push._clear: update_cell(i, 8, 0).
clear_need_push_rows(rows, premise_id) ==
    LET i == FirstIndex(rows, LAMBDA r : r.premise_id = premise_id)
    IN  IF i = 0 THEN rows ELSE [rows EXCEPT ![i].need_push = "i0"]

\* update_tariff._update: update_cell(i, 2, new_value) on the first row of the type.
update_tariff_found(rows, type) == FirstIndex(rows, LAMBDA r : r.type = type) # 0

update_tariff_rows(rows, type, new_value) ==
    LET i == FirstIndex(rows, LAMBDA r : r.type = type)
    IN  IF i = 0 THEN rows ELSE [rows EXCEPT ![i].value = new_value]

\* A marking that writes the consumption into the paid-reading column.
mark_meters_paid_consumption(rows, premise_id) ==
    [i \in Indices(rows) |->
        IF rows[i].premise_id = premise_id
        THEN [rows[i] EXCEPT !.paid_reading = rows[i].last_reading - rows[i].paid_reading,
                             !.paid_date = Today]
        ELSE rows[i]]

\* process_payment._mark_meters_paid: one batch_update of N{i}:O{i} for every
\* row of the premise (no call when there is none).
mark_meters_paid_rows(rows, premise_id) ==
    [i \in Indices(rows) |->
        IF rows[i].premise_id = premise_id
        THEN [rows[i] EXCEPT !.paid_reading = rows[i].last_reading, !.paid_date = Today]
        ELSE rows[i]]

\* save_payment._save: the row appended to the payment log.
\* A log that puts the new row first and moves every other row down.
save_payment_rows_front(rows, premise_id, telegram_id, amount, receipt_url) ==
    <<[premise_id |-> premise_id, telegram_id |-> telegram_id,
       amount |-> amount, receipt |-> receipt_url]>> \o rows

save_payment_rows(rows, premise_id, telegram_id, amount, receipt_url) ==
    Append(rows, [premise_id |-> premise_id, telegram_id |-> telegram_id,
                  amount |-> amount, receipt |-> receipt_url])

(***************************************************************************)
(* The service calls.  Each mutator writes the store and then invalidates  *)
(* cache keys; lastOp records the call that returned last and the keys its *)
(* invalidation dropped.                                                   *)
(***************************************************************************)
NoOp == [op |-> "none", a |-> 0, b |-> 0, s |-> "", ok |-> TRUE, dropped |-> {}]

Ret(op, a, b, s, ok) ==
    [op |-> op, a |-> a, b |-> b, s |-> s, ok |-> ok,
     dropped |-> (DOMAIN cache) \ (DOMAIN cache')]

PayIdle == [pc |-> "idle"]

\* No process_payment call is between two of its store calls.
NoPayment == pay.pc \in {"idle", "returned", "raised"}

\* The cached get-all accessors: get_all_premises, _get_all_tenants_raw,
\* get_all_meters, _get_all_readings, _get_all_invoices, get_tariffs.
get_all(key) ==
    /\ NoPayment
    /\ cache' = ReadCache(cache, key)
    /\ lastOp' = NoOp
    /\ pay' = PayIdle
    /\ UNCHANGED <<store, now, conv>>

add_premise ==
    /\ NoPayment
    /\ Len(premises) < 2 + MaxAdded
    /\ premises' = add_premise_rows(premises)
    /\ cache' = invalidate_cache(cache, "premises")
    /\ lastOp' = Ret("add_premise", 0, 0, "", TRUE)
    /\ pay' = PayIdle
    /\ UNCHANGED <<tenants, meters, readings, invoices, payments, tariffs, now, conv>>

add_tenant(telegram_id) ==
    /\ NoPayment
    /\ Len(tenants) < 3 + MaxAdded
    /\ tenants' = add_tenant_rows(tenants, telegram_id)
    /\ cache' = invalidate_cache(cache, "tenants")
    /\ lastOp' = Ret("add_tenant", telegram_id, 0, "", TRUE)
    /\ pay' = PayIdle
    /\ UNCHANGED <<premises, meters, readings, invoices, payments, tariffs, now, conv>>

add_meter(premise_id, type, responsible) ==
    /\ NoPayment
    /\ Len(meters) < 3 + MaxAdded
    /\ meters' = add_meter_rows(meters, premise_id, type, responsible, responsible)
    /\ cache' = invalidate_cache(cache, "meters")
    /\ lastOp' = Ret("add_meter", premise_id, responsible, type, TRUE)
    /\ pay' = PayIdle
    /\ UNCHANGED <<premises, tenants, readings, invoices, payments, tariffs, now, conv>>

\* save_reading: append to the log, invalidate "readings", then
\* update_meter_last_reading (write the meter, invalidate "meters").
save_reading_cache(c) == invalidate_cache(invalidate_cache(c, "readings"), "meters")

save_reading(meter_id, premise_id, telegram_id, reading) ==
    /\ NoPayment
    /\ readings' = save_reading_rows(readings, meter_id, premise_id, telegram_id, reading)
    /\ meters' = update_meter_last_reading_rows(meters, meter_id, reading)
    /\ cache' = save_reading_cache(cache)
    /\ lastOp' = Ret("save_reading", meter_id, reading, "", TRUE)
    /\ pay' = PayIdle
    /\ UNCHANGED <<premises, tenants, invoices, payments, tariffs, now, conv>>

\* An issue that invalidates whether or not it found a row.
issue_invoice_cache_always(c, found) == invalidate_cache(c, "invoices")

\* issue_invoice: the cache is invalidated only when a row was found.
issue_invoice_cache(c, found) == IF found THEN invalidate_cache(c, "invoices") ELSE c

issue_invoice(premise_id) ==
    /\ NoPayment
    /\ invoices' = issue_invoice_rows(invoices, premise_id)
    /\ cache' = issue_invoice_cache(cache, issue_invoice_found(invoices, premise_id))
    /\ lastOp' = Ret("issue_invoice", premise_id, 0, "",
                     issue_invoice_found(invoices, premise_id))
    /\ pay' = PayIdle
    /\ UNCHANGED <<premises, tenants, meters, readings, payments, tariffs, now, conv>>

update_invoice_amount(premise_id) ==
    /\ NoPayment
    /\ invoices' = update_invoice_amount_rows(invoices, premise_id)
    /\ cache' = invalidate_cache(cache, "invoices")
    /\ lastOp' = Ret("update_invoice_amount", premise_id, 0, "", TRUE)
    /\ pay' = PayIdle
    /\ UNCHANGED <<premises, tenants, meters, readings, payments, tariffs, now, conv>>

mark_invoice_paid(premise_id) ==
    /\ NoPayment
    /\ invoices' = mark_invoice_paid_rows(invoices, premise_id)
    /\ cache' = invalidate_cache(cache, "invoices")
    /\ lastOp' = Ret("mark_invoice_paid", premise_id, 0, "", TRUE)
    /\ pay' = PayIdle
    /\ UNCHANGED <<premises, tenants, meters, readings, payments, tariffs, now, conv>>

clear_need_push(premise_id) ==
    /\ NoPayment
    /\ invoices' = clear_need_push_rows(invoices, premise_id)
    /\ cache' = invalidate_cache(cache, "invoices")
    /\ lastOp' = Ret("clear_need_push", premise_id, 0, "", TRUE)
    /\ pay' = PayIdle
    /\ UNCHANGED <<premises, tenants, meters, readings, payments, tariffs, now, conv>>

\* update_tariff: the cache is invalidated only when the type was found.
update_tariff_cache(c, found) == IF found THEN invalidate_cache(c, "tariffs") ELSE c

update_tariff(type, new_value) ==
    /\ NoPayment
    /\ tariffs' = update_tariff_rows(tariffs, type, new_value)
    /\ cache' = update_tariff_cache(cache, update_tariff_found(tariffs, type))
    /\ lastOp' = Ret("update_tariff", new_value, 0, type, update_tariff_found(tariffs, type))
    /\ pay' = PayIdle
    /\ UNCHANGED <<premises, tenants, meters, readings, invoices, payments, now, conv>>

\* time.time() advances.
Tick ==
    /\ now + TickStep <= MaxNow
    /\ now' = now + TickStep
    /\ UNCHANGED <<store, cache, pay, conv, lastOp>>

update_meter_last_reading(meter_id, reading) ==
    /\ NoPayment
    /\ meters' = update_meter_last_reading_rows(meters, meter_id, reading)
    /\ cache' = invalidate_cache(cache, "meters")
    /\ lastOp' = Ret("update_meter_last_reading", meter_id, reading, "", TRUE)
    /\ pay' = PayIdle
    /\ UNCHANGED <<premises, tenants, readings, invoices, payments, tariffs, now, conv>>

(***************************************************************************)
(* process_payment, one action per store call.  A store call may raise;    *)
(* the exception leaves process_payment at once, so nothing after the      *)
(* failed call runs (no later write, no invalidate_cache).                 *)
(***************************************************************************)
\* pay.pre is the store when the call started, pay.after the call that had
\* returned last before it (history, for the statements about the transaction).
PayCall(pc, premise_id, input, failed_step) ==
    [pc |-> pc, premise_id |-> premise_id, telegram_id |-> input.telegram_id,
     amount |-> input.amount, receipt |-> input.receipt, failed_step |-> failed_step,
     pre |-> [meters |-> meters, payments |-> payments, invoices |-> invoices],
     after |-> lastOp]

PayRet(ok) == Ret("process_payment", pay.premise_id, pay.amount, pay.receipt, ok)

\* Step 1: _mark_meters_paid, then invalidate_cache("meters").
pay_mark_meters(premise_id, input) ==
    /\ NoPayment
    /\ Len(payments) < MaxPayments
    /\ meters' = mark_meters_paid_rows(meters, premise_id)
    /\ cache' = invalidate_cache(cache, "meters")
    /\ pay' = PayCall("meters_marked", premise_id, input, 0)
    /\ lastOp' = NoOp
    /\ UNCHANGED <<premises, tenants, readings, invoices, payments, tariffs, now, conv>>

\* Step 1 raises (get_all_records or the single batch_update fails).
pay_mark_meters_fail(premise_id, input) ==
    /\ NoPayment
    /\ Len(payments) < MaxPayments
    /\ UNCHANGED <<store, cache, now, conv>>
    /\ pay' = PayCall("raised", premise_id, input, 1)
    /\ lastOp' = Ret("process_payment", premise_id, input.amount, input.receipt, FALSE)

\* A second step that resets the invoice before the payment row is logged.
pay_invoice_before_payment ==
    /\ pay.pc = "meters_marked"
    /\ invoices' = mark_invoice_paid_rows(invoices, pay.premise_id)
    /\ cache' = invalidate_cache(cache, "invoices")
    /\ pay' = [pay EXCEPT !.pc = "logged"]
    /\ lastOp' = NoOp
    /\ UNCHANGED <<premises, tenants, meters, readings, payments, tariffs, now, conv>>

\* Step 2: save_payment.
pay_save_payment ==
    /\ pay.pc = "meters_marked"
    /\ payments' = save_payment_rows(payments, pay.premise_id, pay.telegram_id,
                                     pay.amount, pay.receipt)
    /\ pay' = [pay EXCEPT !.pc = "logged"]
    /\ lastOp' = NoOp
    /\ UNCHANGED <<premises, tenants, meters, readings, invoices, tariffs, cache, now, conv>>

\* A failure of step 2 that puts the paid readings back.
pay_save_payment_fail_rollback ==
    /\ pay.pc = "meters_marked"
    /\ meters' = pay.pre.meters
    /\ UNCHANGED <<premises, tenants, readings, invoices, payments, tariffs, cache, now, conv>>
    /\ pay' = [pay EXCEPT !.pc = "raised", !.failed_step = 2]
    /\ lastOp' = PayRet(FALSE)

\* Step 2 raises.
pay_save_payment_fail ==
    /\ pay.pc = "meters_marked"
    /\ UNCHANGED <<store, cache, now, conv>>
    /\ pay' = [pay EXCEPT !.pc = "raised", !.failed_step = 2]
    /\ lastOp' = PayRet(FALSE)

\* Step 3: mark_invoice_paid (both writes, then invalidate_cache("invoices")).
pay_mark_invoice ==
    /\ pay.pc = "logged"
    /\ invoices' = mark_invoice_paid_rows(invoices, pay.premise_id)
    /\ cache' = invalidate_cache(cache, "invoices")
    /\ pay' = [pay EXCEPT !.pc = "returned"]
    /\ lastOp' = PayRet(TRUE)
    /\ UNCHANGED <<premises, tenants, meters, readings, payments, tariffs, now, conv>>

\* Step 3 raises: before any write (written = FALSE), or at the date write,
\* after the amount write has taken effect (written = TRUE).
pay_mark_invoice_fail(written) ==
    /\ pay.pc = "logged"
    /\ invoices' = IF written THEN mark_invoice_paid_amount(invoices, pay.premise_id)
                   ELSE invoices
    /\ UNCHANGED <<premises, tenants, meters, readings, payments, tariffs, cache, now, conv>>
    /\ pay' = [pay EXCEPT !.pc = "raised", !.failed_step = 3]
    /\ lastOp' = PayRet(FALSE)

(***************************************************************************)
(* The tenant's reading conversation (bot/handlers/tenant.py).  conv[u] is *)
(* the conversation state of user u with the user_data the handlers keep:  *)
(* meter and reading_value are <<>> when the key is absent.                *)
(***************************************************************************)
NoConv == [stage |-> "none", meter |-> <<>>, prev_value |-> 0, reading_value |-> <<>>]

\* get_meter: the first cached meter record with the id, <<>> when there is none.
get_meter(records, meter_id) ==
    LET i == FirstIndex(records, LAMBDA r : r.id = meter_id)
    IN  IF i = 0 THEN <<>> ELSE <<records[i]>>

\* get_last_reading_for_meter and the handler's default: the value of the
\* last row of the cached log with the meter id, 0 when there is none.
prev_value_of(records, meter_id) ==
    LET matching == {i \in Indices(records) : records[i].meter_id = meter_id}
    IN  IF matching = {} THEN 0 ELSE records[MaxOf(matching)].value

\* meter_selected_callback: entry point of the conversation (allow_reentry).
meter_selected_callback(u, meter_id) ==
    LET meter == get_meter(ReadResult("meters"), meter_id)
    IN  /\ NoPayment
        /\ IF meter = <<>>
           THEN /\ cache' = ReadCache(cache, "meters")
                /\ conv' = [conv EXCEPT ![u].stage = "none"]
           ELSE /\ cache' = ReadCache(ReadCache(cache, "meters"), "readings")
                /\ conv' = [conv EXCEPT ![u].stage = "entering",
                                        ![u].meter = meter,
                                        ![u].prev_value =
                                            prev_value_of(ReadResult("readings"), meter_id)]
        /\ lastOp' = NoOp
        /\ UNCHANGED <<store, now, pay>>

\* receive_reading: a value below prev_value is refused and asked again.
receive_reading(u, value) ==
    /\ conv[u].stage = "entering"
    /\ conv' = IF conv[u].meter = <<>>
               THEN [conv EXCEPT ![u].stage = "none"]
               ELSE IF value < conv[u].prev_value
               THEN conv
               ELSE [conv EXCEPT ![u].stage = "confirming", ![u].reading_value = <<value>>]
    /\ lastOp' = NoOp
    /\ UNCHANGED <<store, cache, now, pay>>

\* confirm_reading_callback: get_tenant, then save_reading with the stored
\* meter and value; user_data is cleared.
confirm_reading_callback(u) ==
    /\ conv[u].stage = "confirming"
    /\ NoPayment
    /\ IF conv[u].meter = <<>> \/ conv[u].reading_value = <<>>
       THEN /\ conv' = [conv EXCEPT ![u].stage = "none"]
            /\ lastOp' = NoOp
            /\ UNCHANGED <<store, cache>>
       ELSE LET meter == conv[u].meter[1]
                value == conv[u].reading_value[1]
            IN  /\ readings' = save_reading_rows(readings, meter.id, meter.premise_id, u, value)
                /\ meters' = update_meter_last_reading_rows(meters, meter.id, value)
                /\ cache' = save_reading_cache(ReadCache(cache, "tenants_raw"))
                /\ conv' = [conv EXCEPT ![u] = NoConv]
                /\ lastOp' = Ret("save_reading", meter.id, value, "", TRUE)
                /\ UNCHANGED <<premises, tenants, invoices, payments, tariffs>>
    /\ UNCHANGED <<now, pay>>

\* edit_reading_callback: back to entering the value.
edit_reading_callback(u) ==
    /\ conv[u].stage = "confirming"
    /\ conv' = [conv EXCEPT ![u].stage = IF conv[u].meter = <<>> THEN "none" ELSE "entering"]
    /\ lastOp' = NoOp
    /\ UNCHANGED <<store, cache, now, pay>>

\* cancel_reading_callback: user_data is cleared.
cancel_reading_callback(u) ==
    /\ conv[u].stage \in {"entering", "confirming"}
    /\ conv' = [conv EXCEPT ![u] = NoConv]
    /\ lastOp' = NoOp
    /\ UNCHANGED <<store, cache, now, pay>>

(***************************************************************************)
(* The initial spreadsheet and the inputs.  The bot starts with an empty   *)
(* cache on a sheet that holds two premises, three meters (two in premise  *)
(* 1, one in premise 2), one reading already logged for meter 1, and an    *)
(* invoice row for each premise.                                           *)
(***************************************************************************)
\* No query has been applied.
NoQuery == [kind |-> "none", op |-> "none"]

\* The callers that may have a cached accessor in progress, and a caller with none.
CallIds == {1, 2}
NoCall ==
    [pc |-> "idle", key |-> "", map |-> FALSE, data |-> <<>>, alone |-> TRUE, evicted |-> FALSE,
     month |-> 1]

\* The callers that may have a mutator in progress, and a caller with none.
TxnIds == {1, 2}
NoTxn == [op |-> "none", pc |-> "idle"]

\* The runs of the push sweep that may overlap, and a run that has not started.
RunIds == {1, 2}
NoRun ==
    [pc |-> "idle", list |-> <<>>, i |-> 0, sends |-> <<>>, clears |-> <<>>, overlap |-> FALSE]

InitPremises == <<[id |-> 1], [id |-> 2]>>

InitTenants ==
    <<[telegram_id |-> 9, is_owner |-> "TRUE"],
      [telegram_id |-> 1, is_owner |-> "FALSE"],
      [telegram_id |-> 2, is_owner |-> "FALSE"]>>

InitMeter(id, premise_id, responsible, last_reading) ==
    [id |-> id, premise_id |-> premise_id, type |-> "electricity",
     resp_readings |-> responsible, resp_payment |-> responsible,
     last_reading |-> last_reading,
     last_date |-> IF last_reading = 0 THEN NoDate ELSE Today,
     paid_reading |-> 0, paid_date |-> NoDate]

InitMeters == <<InitMeter(1, 1, 1, 1), InitMeter(2, 1, 1, 0), InitMeter(3, 2, 2, 0)>>

InitReadings ==
    <<[date |-> <<0, 1>>, meter_id |-> 1, premise_id |-> 1, telegram_id |-> 1, value |-> 1]>>

InitInvoice(premise_id, responsible, need_push) ==
    [premise_id |-> premise_id, resp_payment |-> responsible,
     sum_formula |-> TRUE, sum_value |-> 0,
     issued |-> 0, issued_text |-> FALSE, status_formula |-> TRUE,
     need_push |-> need_push, pay_date |-> NoDate]

InitInvoices == <<InitInvoice(1, 1, "i1"), InitInvoice(2, 2, "i0")>>

InitTariffs == <<[type |-> "electricity", value |-> 1]>>

PayInputs == {[telegram_id |-> 1, amount |-> 1, receipt |-> "r1"]}

Init ==
    /\ premises = InitPremises
    /\ tenants = InitTenants
    /\ meters = InitMeters
    /\ readings = InitReadings
    /\ invoices = InitInvoices
    /\ payments = <<>>
    /\ tariffs = InitTariffs
    /\ cache = <<>>
    /\ now = 0
    /\ pay = PayIdle
    /\ conv = [u \in TenantIds |-> NoConv]
    /\ lastOp = NoOp
    /\ calls = 0
    /\ q = NoQuery
    /\ fetch = [c \in CallIds |-> NoCall]
    /\ sweep = [r \in RunIds |-> NoRun]
    /\ month_now = 1
    /\ txn = [c \in TxnIds |-> NoTxn]

MeterRow(meter_id) == meters[FirstIndex(meters, LAMBDA r : r.id = meter_id)]

HasMeter(meter_id) == \E i \in Indices(meters) : meters[i].id = meter_id

HasInvoice(premise_id) == \E i \in Indices(invoices) : invoices[i].premise_id = premise_id

InvoiceRow(premise_id) ==
    invoices[FirstIndex(invoices, LAMBDA r : r.premise_id = premise_id)]

\* A step that is not counted, and a counted mutator call.
free(A) == A /\ UNCHANGED <<calls, q, fetch, sweep, month_now, txn>>
counted(A) ==
    calls < MaxCalls /\ A /\ calls' = calls + 1 /\ UNCHANGED <<q, fetch, sweep, month_now, txn>>

(***************************************************************************)
(* Spec: readings, invoices and payments.  The calls are those of the      *)
(* billing flow: the cached reads of meters, readings and invoices,        *)
(* save_reading, issue_invoice, and process_payment with its failures.     *)
(***************************************************************************)
BillingKeys == {"meters", "readings", "invoices"}

Next ==
    \/ \E key \in BillingKeys : free(get_all(key))
    \/ \E m \in MeterIds, v \in ReadingValues :
          /\ HasMeter(m)
          /\ Len(readings) < Len(InitReadings) + MaxReadings
          /\ free(save_reading(m, MeterRow(m).premise_id, MeterRow(m).resp_readings, v))
    \/ \E p \in PremiseIds : free(issue_invoice(p))
    \/ \E p \in PremiseIds, input \in PayInputs :
          HasInvoice(p) /\ free(pay_mark_meters(p, input))
    \/ \E p \in PremiseIds, input \in PayInputs :
          HasInvoice(p) /\ free(pay_mark_meters_fail(p, input))
    \/ free(pay_save_payment)
    \/ free(pay_save_payment_fail)
    \/ free(pay_mark_invoice)
    \/ \E written \in BOOLEAN : free(pay_mark_invoice_fail(written))

Spec == Init /\ [][Next]_vars

(***************************************************************************)
(* SpecCache: every mutator of the service against every cache state.      *)
(* Reads and clock steps warm and age the cache; at most MaxCalls mutator  *)
(* calls follow, each returning normally.                                  *)
(***************************************************************************)
NextCache ==
    \/ \E key \in CacheKeys : free(get_all(key))
    \/ free(Tick)
    \/ counted(add_premise)
    \/ counted(add_tenant(3))
    \/ \E p \in {1, 2} : counted(add_meter(p, "electricity", p))
    \/ \E m \in MeterIds, v \in ReadingValues :
          HasMeter(m) /\ counted(update_meter_last_reading(m, v))
    \/ \E m \in MeterIds, v \in ReadingValues :
          /\ HasMeter(m)
          /\ Len(readings) < Len(InitReadings) + MaxReadings
          /\ counted(save_reading(m, MeterRow(m).premise_id, MeterRow(m).resp_readings, v))
    \/ \E p \in PremiseIds : counted(issue_invoice(p))
    \/ \E p \in PremiseIds : counted(update_invoice_amount(p))
    \/ \E p \in PremiseIds : counted(mark_invoice_paid(p))
    \/ \E p \in PremiseIds : counted(clear_need_push(p))
    \/ \E t \in TariffTypes, v \in TariffValues : counted(update_tariff(t, v))
    \/ \E p \in PremiseIds, input \in PayInputs :
          HasInvoice(p) /\ counted(pay_mark_meters(p, input))
    \/ free(pay_save_payment)
    \/ free(pay_mark_invoice)

SpecCache == Init /\ [][NextCache]_vars

(***************************************************************************)
(* SpecConv: the reading conversations of the tenants.  Every user may     *)
(* press a meter button at any time (the handler does not look at who      *)
(* presses it), so conversations for one meter interleave handler by       *)
(* handler.                                                                *)
(***************************************************************************)
NextConv ==
    \/ \E u \in TenantIds, m \in MeterIds : free(meter_selected_callback(u, m))
    \/ \E u \in TenantIds, v \in ReadingValues : free(receive_reading(u, v))
    \/ \E u \in TenantIds :
          /\ Len(readings) < Len(InitReadings) + MaxSubmissions
          /\ free(confirm_reading_callback(u))
    \/ \E u \in TenantIds : free(edit_reading_callback(u))
    \/ \E u \in TenantIds : free(cancel_reading_callback(u))

SpecConv == Init /\ [][NextConv]_vars

(***************************************************************************)
(* The read-only queries of SheetsService, as functions of the record      *)
(* lists the cached accessors return.  A cell of a record that             *)
(* get_all_records may return empty is <<>> when empty and <<v>> when it   *)
(* holds v; an empty responsible-id cell is 0.                             *)
(***************************************************************************)
\* (value or 0)
or_zero(cell) == IF cell = <<>> THEN 0 ELSE cell[1]

\* get_invoices_for_tenant
get_invoices_for_tenant(records, telegram_id) ==
    SelectSeq(records, LAMBDA r : r.resp_payment = telegram_id)

\* A filter that trusts the status field.
is_unpaid_by_status(r) == r.status = "Unpaid"

\* The test of get_unpaid_invoices_for_tenant and get_all_unpaid_invoices:
\* Статус == "Не оплачен" and (Сумма or 0) > 0.
is_unpaid(r) == r.status = "Unpaid" /\ or_zero(r.sum) > 0

\* get_unpaid_invoices_for_tenant
get_unpaid_invoices_for_tenant(records, telegram_id) ==
    SelectSeq(get_invoices_for_tenant(records, telegram_id), is_unpaid)

\* get_all_unpaid_invoices
get_all_unpaid_invoices(records) == SelectSeq(records, is_unpaid)

\* str(r.get("Дата", "")).startswith(current_month): a date is the sequence
\* <<month, day>> (<<>> for an empty cell), a month the sequence <<month>>.
startswith(date, prefix) ==
    Len(prefix) <= Len(date) /\ SubSeq(date, 1, Len(prefix)) = prefix

\* A grouping that takes the rows of every month.
readings_by_meter_all_months(rows, current_month) ==
    [m \in {rows[i].meter_id : i \in Indices(rows)} |->
        SelectSeq(rows, LAMBDA r : r.meter_id = m)]

\* _get_current_month_meter_readings_map: the rows of the current month,
\* grouped by meter id (a meter without such rows is no key).
readings_by_meter(rows, current_month) ==
    [m \in {rows[i].meter_id : i \in {j \in Indices(rows) :
                                         startswith(rows[j].date, current_month)}} |->
        SelectSeq(rows, LAMBDA r : startswith(r.date, current_month) /\ r.meter_id = m)]

\* readings_by_meter.get(meter_id, [])
map_get(map, meter_id) == IF meter_id \in DOMAIN map THEN map[meter_id] ELSE <<>>

\* get_readings_status
get_readings_status(records, map) ==
    [i \in Indices(records) |->
        [meter |-> records[i],
         has_readings |-> Len(map_get(map, records[i].id)) > 0,
         readings_count |-> Len(map_get(map, records[i].id))]]

\* A loop body that files the meter under its tenant whether read or not.
remind_add_any(acc, meter, map) ==
    LET tid == meter.resp_readings
        i == FirstIndex(acc, LAMBDA e : e.telegram_id = tid)
    IN  IF tid = 0 THEN acc
        ELSE IF i = 0
        THEN Append(acc, [telegram_id |-> tid, meters |-> <<meter.name>>])
        ELSE [acc EXCEPT ![i].meters = Append(@, meter.name)]

\* get_tenants_without_readings, the loop body: a meter that is no key of
\* the map is filed under its reading-responsible id, unless that is empty.
remind_add(acc, meter, map) ==
    LET tid == meter.resp_readings
        i == FirstIndex(acc, LAMBDA e : e.telegram_id = tid)
    IN  IF meter.id \in DOMAIN map \/ tid = 0 THEN acc
        ELSE IF i = 0
        THEN Append(acc, [telegram_id |-> tid, meters |-> <<meter.name>>])
        ELSE [acc EXCEPT ![i].meters = Append(@, meter.name)]

RECURSIVE remind_fold(_, _, _, _)
remind_fold(records, map, k, acc) ==
    IF k > Len(records) THEN acc
    ELSE remind_fold(records, map, k + 1, remind_add(acc, records[k], map))

\* get_tenants_without_readings: list(tenants_to_remind.values())
get_tenants_without_readings(records, map) == remind_fold(records, map, 1, <<>>)

\* A loop body that stores the invoice's amount as the tenant's total.
unpaid_add_last(acc, inv) ==
    LET tid == inv.resp_payment
        i == FirstIndex(acc, LAMBDA e : e.telegram_id = tid)
    IN  IF tid = 0 THEN acc
        ELSE IF i = 0
        THEN Append(acc, [telegram_id |-> tid, total |-> or_zero(inv.sum),
                          premises |-> <<inv.premise>>])
        ELSE [acc EXCEPT ![i].total = or_zero(inv.sum),
                         ![i].premises = Append(@, inv.premise)]

\* get_tenants_with_unpaid, the loop body: the invoice is added to the
\* record of its payment-responsible id, unless that is empty.
unpaid_add(acc, inv) ==
    LET tid == inv.resp_payment
        i == FirstIndex(acc, LAMBDA e : e.telegram_id = tid)
    IN  IF tid = 0 THEN acc
        ELSE IF i = 0
        THEN Append(acc, [telegram_id |-> tid, total |-> 0 + or_zero(inv.sum),
                          premises |-> <<inv.premise>>])
        ELSE [acc EXCEPT ![i].total = @ + or_zero(inv.sum),
                         ![i].premises = Append(@, inv.premise)]

RECURSIVE unpaid_fold(_, _, _)
unpaid_fold(records, k, acc) ==
    IF k > Len(records) THEN acc
    ELSE unpaid_fold(records, k + 1, unpaid_add(acc, records[k]))

\* get_tenants_with_unpaid: over get_all_unpaid_invoices.
get_tenants_with_unpaid(records) == unpaid_fold(get_all_unpaid_invoices(records), 1, <<>>)

(***************************************************************************)
(* SpecQuery: the queries applied to record lists drawn from bounded sets. *)
(***************************************************************************)
RespCells == {0} \cup TenantIds
SumCells == {<<>>} \cup {<<v>> : v \in (0 - 1)..MaxReading}
StatusCells == {"Unpaid", "Draft", "Paid"}
PremiseNames == <<"p1", "p2", "p3", "p4">>

\* The lists of at most n elements of S.
SeqsUpTo(S, n) == UNION {[1..k -> S] : k \in 0..n}

\* Invoice records: the i-th has premise id i.
InvoiceCells == [resp_payment : RespCells, sum : SumCells, status : StatusCells]
InvoiceInput(cells) ==
    [i \in Indices(cells) |->
        [premise_id |-> i, premise |-> PremiseNames[i],
         resp_payment |-> cells[i].resp_payment,
         sum |-> cells[i].sum, status |-> cells[i].status]]
InvoiceInputs == {InvoiceInput(cells) : cells \in SeqsUpTo(InvoiceCells, MaxRows)}

\* Meter records: the i-th has id i.
MeterNames == <<"m1", "m2", "m3", "m4">>
MeterInput(cells) ==
    [i \in Indices(cells) |->
        [id |-> i, name |-> MeterNames[i], resp_readings |-> cells[i]]]
MeterInputs == {MeterInput(cells) : cells \in SeqsUpTo(RespCells, MaxRows + 1)}

\* Rows of the readings log: dates of month 1 and month 2, or no date.
Months == {<<1>>, <<2>>}
DateCells == {<<>>, <<1, 1>>, <<2, 1>>}
ReadingInputs == SeqsUpTo([meter_id : 1..(MaxRows + 1), date : DateCells], MaxRows)

InitQuery ==
    /\ premises = InitPremises
    /\ tenants = InitTenants
    /\ meters = InitMeters
    /\ readings = InitReadings
    /\ invoices = InitInvoices
    /\ payments = <<>>
    /\ tariffs = InitTariffs
    /\ cache = <<>>
    /\ now = 0
    /\ pay = PayIdle
    /\ conv = [u \in TenantIds |-> NoConv]
    /\ lastOp = NoOp
    /\ calls = 0
    /\ fetch = [c \in CallIds |-> NoCall]
    /\ sweep = [r \in RunIds |-> NoRun]
    /\ month_now = 1
    /\ txn = [c \in TxnIds |-> NoTxn]
    /\ \/ \E records \in InvoiceInputs :
             q = [kind |-> "invoices", invoices |-> records,
                  op |-> "none", arg |-> 0, out |-> <<>>]
       \/ \E records \in MeterInputs, rows \in ReadingInputs, month \in Months :
             q = [kind |-> "readings", meters |-> records, readings |-> rows,
                  month |-> month, op |-> "none", arg |-> 0, out |-> <<>>]

Query(op, arg, out) ==
    /\ q' = [q EXCEPT !.op = op, !.arg = arg, !.out = out]
    /\ UNCHANGED <<store, cache, now, pay, conv, lastOp, calls, fetch, sweep, month_now, txn>>

query_unpaid_invoices_for_tenant(telegram_id) ==
    /\ q.kind = "invoices"
    /\ Query("get_unpaid_invoices_for_tenant", telegram_id,
             get_unpaid_invoices_for_tenant(q.invoices, telegram_id))

query_all_unpaid_invoices ==
    /\ q.kind = "invoices"
    /\ Query("get_all_unpaid_invoices", 0, get_all_unpaid_invoices(q.invoices))

query_readings_status ==
    /\ q.kind = "readings"
    /\ Query("get_readings_status", 0,
             get_readings_status(q.meters, readings_by_meter(q.readings, q.month)))

query_tenants_without_readings ==
    /\ q.kind = "readings"
    /\ Query("get_tenants_without_readings", 0,
             get_tenants_without_readings(q.meters, readings_by_meter(q.readings, q.month)))

query_tenants_with_unpaid ==
    /\ q.kind = "invoices"
    /\ Query("get_tenants_with_unpaid", 0, get_tenants_with_unpaid(q.invoices))

NextQuery ==
    \/ \E t \in TenantIds : query_unpaid_invoices_for_tenant(t)
    \/ query_all_unpaid_invoices
    \/ query_tenants_with_unpaid
    \/ query_readings_status
    \/ query_tenants_without_readings

SpecQuery == InitQuery /\ [][NextQuery]_vars

(***************************************************************************)
(* The cached accessors step by step.  An accessor looks its key up, and   *)
(* on a miss awaits a store call that runs on an executor thread           *)
(* (_run_sync); other callers run while it waits.  The cache is written    *)
(* when the call returns.                                                  *)
(***************************************************************************)
AccessorKeys == {"tenants_raw", "readings"}
Patterns == {None, "readings", "tenants"}

\* A caller is between the lookup and the return of an accessor.
InFlight(call) == call.pc \in {"missed", "fetched"}

\* The key whose worksheet the store call of a call reads.
store_key(call) == IF call.map THEN "readings" ELSE call.key

\* The cached get-all accessors up to their first await: cached = _get_cached(key);
\* if cached is not None: return cached; otherwise the store call is submitted.
accessor_begin(c, key) ==
    /\ ~InFlight(fetch[c])
    /\ IF cache_hit(cache, key)
       THEN /\ fetch' = [fetch EXCEPT ![c] = [pc |-> "hit", key |-> key, map |-> FALSE,
                                              data |-> cache[key].data, alone |-> TRUE,
                                              month |-> month_now,
                                              evicted |-> FALSE]]
            /\ cache' = cache
       ELSE /\ fetch' = [fetch EXCEPT ![c] = [pc |-> "missed", key |-> key, map |-> FALSE,
                                              data |-> <<>>, alone |-> TRUE,
                                              month |-> month_now,
                                              evicted |-> key \in DOMAIN cache]]
            /\ cache' = get_cached(cache, key)
    /\ lastOp' = NoOp
    /\ UNCHANGED <<store, now, pay, conv, calls, q, sweep, month_now, txn>>

\* _get_current_month_meter_readings_map up to its first await: the lookup of
\* the map key, then _get_all_readings(), which returns at once on a hit.
readings_map_begin(c) ==
    /\ ~InFlight(fetch[c])
    /\ IF cache_hit(cache, readings_map_key)
       THEN /\ fetch' = [fetch EXCEPT ![c] = [pc |-> "hit", key |-> readings_map_key,
                                              map |-> TRUE, alone |-> TRUE, evicted |-> FALSE,
                                              month |-> month_now,
                                              data |-> cache[readings_map_key].data]]
            /\ cache' = cache
       ELSE LET c1 == get_cached(cache, readings_map_key)
            IN  IF cache_hit(c1, "readings")
                THEN LET map == readings_by_meter(c1["readings"].data, CurrentMonth)
                     IN  /\ fetch' = [fetch EXCEPT ![c] =
                                         [pc |-> "stored", key |-> readings_map_key,
                                          map |-> TRUE, data |-> map, alone |-> TRUE,
                                              month |-> month_now,
                                          evicted |-> c1 # cache]]
                         /\ cache' = set_cached(c1, readings_map_key, map)
                ELSE /\ fetch' = [fetch EXCEPT ![c] =
                                     [pc |-> "missed", key |-> readings_map_key,
                                      map |-> TRUE, data |-> <<>>, alone |-> TRUE,
                                              month |-> month_now,
                                      evicted |-> get_cached(c1, "readings") # cache]]
                     /\ cache' = get_cached(c1, "readings")
    /\ lastOp' = NoOp
    /\ UNCHANGED <<store, now, pay, conv, calls, q, sweep, month_now, txn>>

\* The store call of an accessor: get_all_records() on the executor thread.
accessor_store_call(c) ==
    /\ fetch[c].pc = "missed"
    /\ fetch' = [fetch EXCEPT ![c].pc = "fetched",
                              ![c].data = StoreRecords(store_key(fetch[c]))]
    /\ lastOp' = NoOp
    /\ UNCHANGED <<store, cache, now, pay, conv, calls, q, sweep, month_now, txn>>

\* A failure that is cached as an empty result.
accessor_store_call_fails_cached(c) ==
    /\ fetch[c].pc = "missed"
    /\ fetch' = [fetch EXCEPT ![c].pc = "raised"]
    /\ cache' = set_cached(cache, store_key(fetch[c]), <<>>)
    /\ lastOp' = NoOp
    /\ UNCHANGED <<store, now, pay, conv, calls, q, sweep, month_now, txn>>

\* The store call raises: the await re-raises in the accessor, which has no
\* handler, so _set_cached is not reached.
accessor_store_call_fails(c) ==
    /\ fetch[c].pc = "missed"
    /\ fetch' = [fetch EXCEPT ![c].pc = "raised"]
    /\ lastOp' = NoOp
    /\ UNCHANGED <<store, cache, now, pay, conv, calls, q, sweep, month_now, txn>>

\* The rest of the accessor once the store call has returned:
\* self._set_cached(key, result); return result.  The map accessor goes on
\* to group the rows and to cache the map.
accessor_end(c) ==
    /\ fetch[c].pc = "fetched"
    /\ LET key == store_key(fetch[c])
           c1 == set_cached(cache, key, fetch[c].data)
           map == readings_by_meter(fetch[c].data, CurrentMonth)
       IN  /\ cache' = IF fetch[c].map THEN set_cached(c1, fetch[c].key, map) ELSE c1
           /\ fetch' = [d \in CallIds |->
                           IF d = c
                           THEN [fetch[c] EXCEPT !.pc = "stored", !.month = month_now,
                                     !.data = IF fetch[c].map THEN map ELSE fetch[c].data]
                           ELSE IF InFlight(fetch[d]) /\ store_key(fetch[d]) = key
                                THEN [fetch[d] EXCEPT !.alone = FALSE]
                                ELSE fetch[d]]
    /\ lastOp' = NoOp
    /\ UNCHANGED <<store, now, pay, conv, calls, q, sweep, month_now, txn>>

\* invalidate_cache(pattern) called on its own.
invalidate(pattern) ==
    /\ cache' = invalidate_cache(cache, pattern)
    /\ lastOp' = Ret("invalidate_cache", 0, 0, pattern, TRUE)
    /\ fetch' = [d \in CallIds |-> IF InFlight(fetch[d])
                                   THEN [fetch[d] EXCEPT !.alone = FALSE] ELSE fetch[d]]
    /\ UNCHANGED <<store, now, pay, conv, calls, q, sweep, month_now, txn>>

NextFetch ==
    \/ \E c \in CallIds, key \in AccessorKeys : accessor_begin(c, key)
    \/ \E c \in CallIds : readings_map_begin(c)
    \/ \E c \in CallIds : accessor_store_call(c)
    \/ \E c \in CallIds : accessor_store_call_fails(c)
    \/ \E c \in CallIds : accessor_end(c)
    \/ \E pattern \in Patterns : invalidate(pattern)
    \/ /\ Len(readings) < Len(InitReadings) + MaxReadings
       /\ free(save_reading(1, 1, 1, MaxReading))
    \/ free(Tick)

SpecFetch == Init /\ [][NextFetch]_vars

(***************************************************************************)
(* The push sweep, process_invoice_push_notifications, step by step: each  *)
(* await of the function is a step, and several runs may be in progress.   *)
(***************************************************************************)
\* get_invoices_needing_push: need_push == 1 or need_push == "1" or need_push is True
get_invoices_needing_push(records) ==
    SelectSeq(records, LAMBDA r : r.need_push \in {"i1", "s1", "bTRUE"})

\* A run is between two awaits of the function.
Running(run) == run.pc \in {"details", "meters", "send", "clear"}

\* The invoice of the loop iteration a run is in.
current(run) == run.list[run.i]

\* The top of the loop body: the end of the list ends the run; an invoice
\* without a payment-responsible id goes to clear_need_push at once.
loop_pc(list, i) ==
    IF i > Len(list) THEN "done"
    ELSE IF list[i].resp_payment = 0 THEN "clear" ELSE "meters"

\* The cache key of the accessor a run awaits at a position.
read_key(pc) ==
    CASE pc = "idle"    -> "invoices"
      [] pc = "details" -> "settings"
      [] pc = "meters"  -> "meters"

\* invoices = await sheets_service.get_invoices_needing_push(); if not invoices: return
sweep_begin(r) ==
    /\ sweep[r].pc = "idle"
    /\ LET list == get_invoices_needing_push(ReadResult("invoices"))
           others == {d \in RunIds : Running(sweep[d])}
       IN  sweep' = [d \in RunIds |->
                        IF d = r
                        THEN [NoRun EXCEPT !.pc = IF list = <<>> THEN "done" ELSE "details",
                                           !.list = list, !.i = 1,
                                           !.overlap = list # <<>> /\ others # {}]
                        ELSE IF d \in others /\ list # <<>>
                             THEN [sweep[d] EXCEPT !.overlap = TRUE]
                             ELSE sweep[d]]
    /\ cache' = ReadCache(cache, "invoices")
    /\ lastOp' = NoOp
    /\ UNCHANGED <<store, now, pay, conv, calls, q, fetch, month_now, txn>>

\* payment_details = await sheets_service.get_payment_details()
sweep_details(r) ==
    /\ sweep[r].pc = "details"
    /\ cache' = ReadCache(cache, "settings")
    /\ sweep' = [sweep EXCEPT ![r].pc = loop_pc(sweep[r].list, 1)]
    /\ lastOp' = NoOp
    /\ UNCHANGED <<store, now, pay, conv, calls, q, fetch, month_now, txn>>

\* meters = await sheets_service.get_meters_by_premise(premise_id)
sweep_meters(r) ==
    /\ sweep[r].pc = "meters"
    /\ cache' = ReadCache(cache, "meters")
    /\ sweep' = [sweep EXCEPT ![r].pc = "send"]
    /\ lastOp' = NoOp
    /\ UNCHANGED <<store, now, pay, conv, calls, q, fetch, month_now, txn>>

\* The store call of the accessor a run awaits raises: the run ends there.
sweep_read_fails(r) ==
    /\ sweep[r].pc \in {"idle", "details", "meters"}
    /\ ~cache_hit(cache, read_key(sweep[r].pc))
    /\ cache' = get_cached(cache, read_key(sweep[r].pc))
    /\ sweep' = [sweep EXCEPT ![r].pc = "raised"]
    /\ lastOp' = NoOp
    /\ UNCHANGED <<store, now, pay, conv, calls, q, fetch, month_now, txn>>

\* A send whose exception leaves the function.
sweep_send_uncaught(r, ok) ==
    /\ sweep[r].pc = "send"
    /\ sweep' = [sweep EXCEPT
                    ![r].sends = Append(@, [premise_id |-> current(sweep[r]).premise_id,
                                            ok |-> ok]),
                    ![r].pc = IF ok THEN "clear" ELSE "raised"]
    /\ lastOp' = NoOp
    /\ UNCHANGED <<store, cache, now, pay, conv, calls, q, fetch, month_now, txn>>

\* try: await app.bot.send_message(...) except Exception: logger.error(...)
sweep_send(r, ok) ==
    /\ sweep[r].pc = "send"
    /\ sweep' = [sweep EXCEPT
                    ![r].sends = Append(@, [premise_id |-> current(sweep[r]).premise_id,
                                            ok |-> ok]),
                    ![r].pc = "clear"]
    /\ lastOp' = NoOp
    /\ UNCHANGED <<store, cache, now, pay, conv, calls, q, fetch, month_now, txn>>

\* await sheets_service.clear_need_push(premise_id), then the next iteration.
sweep_clear(r) ==
    /\ sweep[r].pc = "clear"
    /\ clear_need_push(current(sweep[r]).premise_id)
    /\ sweep' = [sweep EXCEPT ![r].clears = Append(@, current(sweep[r]).premise_id),
                              ![r].i = @ + 1,
                              ![r].pc = loop_pc(sweep[r].list, sweep[r].i + 1)]
    /\ UNCHANGED <<calls, q, fetch, month_now, txn>>

\* clear_need_push raises in its store call, before or after update_cell took
\* effect: invalidate_cache is not reached and the run ends there.
sweep_clear_fails(r, written) ==
    /\ sweep[r].pc = "clear"
    /\ invoices' = IF written
                   THEN clear_need_push_rows(invoices, current(sweep[r]).premise_id)
                   ELSE invoices
    /\ sweep' = [sweep EXCEPT ![r].clears = Append(@, current(sweep[r]).premise_id),
                              ![r].pc = "raised"]
    /\ lastOp' = NoOp
    /\ UNCHANGED <<premises, tenants, meters, readings, payments, tariffs,
                   cache, now, pay, conv, calls, q, fetch, month_now, txn>>

\* The invoice rows a sweep may find: the flag of a premise is set or not (it
\* is set in the sheet, not by the bot), the responsible id is set or blank.
SweepInvoiceInputs ==
    {<<InitInvoice(1, a, "i1"), InitInvoice(2, b, n)>> :
        a \in {0, 1}, b \in {0, 2}, n \in {"i0", "i1"}}

InitSweep ==
    /\ premises = InitPremises
    /\ tenants = InitTenants
    /\ meters = InitMeters
    /\ readings = InitReadings
    /\ invoices \in SweepInvoiceInputs
    /\ payments = <<>>
    /\ tariffs = InitTariffs
    /\ cache = <<>>
    /\ now = 0
    /\ pay = PayIdle
    /\ conv = [u \in TenantIds |-> NoConv]
    /\ lastOp = NoOp
    /\ calls = 0
    /\ q = NoQuery
    /\ fetch = [c \in CallIds |-> NoCall]
    /\ sweep = [r \in RunIds |-> NoRun]
    /\ month_now = 1
    /\ txn = [c \in TxnIds |-> NoTxn]

NextSweep ==
    \/ \E r \in RunIds : sweep_begin(r)
    \/ \E r \in RunIds : sweep_details(r)
    \/ \E r \in RunIds : sweep_meters(r)
    \/ \E r \in RunIds : sweep_read_fails(r)
    \/ \E r \in RunIds, ok \in BOOLEAN : sweep_send(r, ok)
    \/ \E r \in RunIds : sweep_clear(r)
    \/ \E r \in RunIds, written \in BOOLEAN : sweep_clear_fails(r, written)
    \/ free(Tick)

SpecSweep == InitSweep /\ [][NextSweep]_vars

(***************************************************************************)
(* The mutators store call by store call.  The function a mutator hands to *)
(* _run_sync runs on an executor thread; each request it sends to the      *)
(* spreadsheet is a step, and the calls of two callers interleave between  *)
(* them.  The cache is invalidated when the awaiting coroutine resumes.    *)
(***************************************************************************)
Busy(t) == t.pc \notin {"idle", "returned", "raised"}

\* update_invoice_amount._update: meters_sheet.get_all_records() and the loop
\* over the premise's meters.
recalc_read_meters(c, premise_id) ==
    /\ ~Busy(txn[c])
    /\ txn' = [txn EXCEPT ![c] = [op |-> "update_invoice_amount", pc |-> "meters_read",
                                  premise_id |-> premise_id,
                                  total |-> invoice_total(premise_id),
                                  responsible |-> invoice_responsible(premise_id),
                                  found |-> 0]]
    /\ lastOp' = NoOp
    /\ UNCHANGED <<store, cache, now, pay, conv, calls, q, fetch, sweep, month_now>>

\* update_invoice_amount._update: invoices_sheet.get_all_records() and the
\* search for the premise's row.
recalc_read_invoices(c) ==
    /\ txn[c].op = "update_invoice_amount" /\ txn[c].pc = "meters_read"
    /\ txn' = [txn EXCEPT ![c].pc = "invoices_read",
                          ![c].found = FirstIndex(invoices, LAMBDA r :
                                                     r.premise_id = txn[c].premise_id)]
    /\ lastOp' = NoOp
    /\ UNCHANGED <<store, cache, now, pay, conv, calls, q, fetch, sweep, month_now>>

\* update_invoice_amount._update: update_cell(i, 5, total) or append_row(...).
recalc_write(c) ==
    /\ txn[c].op = "update_invoice_amount" /\ txn[c].pc = "invoices_read"
    /\ invoices' = update_invoice_amount_write(invoices, txn[c].premise_id, txn[c].found,
                                               txn[c].total, txn[c].responsible)
    /\ txn' = [txn EXCEPT ![c].pc = "written"]
    /\ lastOp' = NoOp
    /\ UNCHANGED <<premises, tenants, meters, readings, payments, tariffs,
                   cache, now, pay, conv, calls, q, fetch, sweep, month_now>>

\* update_invoice_amount after the await: self.invalidate_cache("invoices").
recalc_return(c) ==
    /\ txn[c].op = "update_invoice_amount" /\ txn[c].pc = "written"
    /\ cache' = invalidate_cache(cache, "invoices")
    /\ txn' = [txn EXCEPT ![c].pc = "returned"]
    /\ lastOp' = NoOp
    /\ UNCHANGED <<store, now, pay, conv, calls, q, fetch, sweep, month_now>>

\* The rows of a premise and the last reading of each, as _mark_meters_paid
\* collects them into updates.
\* A loop that collects the rows of every premise.
meter_updates_all(rows, premise_id) ==
    [i \in Indices(rows) |-> rows[i].last_reading]

meter_updates(rows, premise_id) ==
    [i \in {j \in Indices(rows) : rows[j].premise_id = premise_id} |-> rows[i].last_reading]

\* A batch that writes only the first of the collected ranges.
batch_update_first(rows, updates) ==
    [i \in Indices(rows) |->
        IF i \in DOMAIN updates /\ \A j \in DOMAIN updates : i <= j
        THEN [rows[i] EXCEPT !.paid_reading = updates[i], !.paid_date = Today]
        ELSE rows[i]]

\* sheet.batch_update(updates): N{i}:O{i} = [last_reading, today] for every
\* collected row, in one request.
batch_update(rows, updates) ==
    [i \in Indices(rows) |->
        IF i \in DOMAIN updates
        THEN [rows[i] EXCEPT !.paid_reading = updates[i], !.paid_date = Today]
        ELSE rows[i]]

\* process_payment._mark_meters_paid: sheet.get_all_records() and the loop.
tpay_read_meters(c, premise_id, input) ==
    /\ txn[c].pc = "idle"
    /\ txn' = [txn EXCEPT ![c] = [op |-> "process_payment", pc |-> "meters_read",
                                  premise_id |-> premise_id,
                                  telegram_id |-> input.telegram_id,
                                  amount |-> input.amount, receipt |-> input.receipt,
                                  updates |-> meter_updates(meters, premise_id),
                                  wrote |-> FALSE, logged |-> FALSE, found |-> 0,
                                  overlap |-> \E d \in TxnIds \ {c} : Busy(txn[d])]]
    /\ lastOp' = NoOp
    /\ UNCHANGED <<store, cache, now, pay, conv, calls, q, fetch, sweep, month_now>>

\* process_payment._mark_meters_paid: if updates: sheet.batch_update(updates).
tpay_write_meters(c) ==
    /\ txn[c].op = "process_payment" /\ txn[c].pc = "meters_read"
    /\ meters' = IF DOMAIN txn[c].updates = {} THEN meters
                 ELSE batch_update(meters, txn[c].updates)
    /\ txn' = [txn EXCEPT ![c].pc = "meters_written",
                          ![c].wrote = DOMAIN txn[c].updates # {}]
    /\ lastOp' = NoOp
    /\ UNCHANGED <<premises, tenants, readings, invoices, payments, tariffs,
                   cache, now, pay, conv, calls, q, fetch, sweep, month_now>>

\* process_payment after the first await: self.invalidate_cache("meters").
tpay_invalidate_meters(c) ==
    /\ txn[c].op = "process_payment" /\ txn[c].pc = "meters_written"
    /\ cache' = invalidate_cache(cache, "meters")
    /\ txn' = [txn EXCEPT ![c].pc = "meters_marked"]
    /\ lastOp' = NoOp
    /\ UNCHANGED <<store, now, pay, conv, calls, q, fetch, sweep, month_now>>

\* save_payment._save: sheet.append_row([...]).
tpay_append_payment(c) ==
    /\ txn[c].op = "process_payment" /\ txn[c].pc = "meters_marked"
    /\ payments' = save_payment_rows(payments, txn[c].premise_id, txn[c].telegram_id,
                                     txn[c].amount, txn[c].receipt)
    /\ txn' = [txn EXCEPT ![c].pc = "logged", ![c].logged = TRUE]
    /\ lastOp' = NoOp
    /\ UNCHANGED <<premises, tenants, meters, readings, invoices, tariffs,
                   cache, now, pay, conv, calls, q, fetch, sweep, month_now>>

\* mark_invoice_paid._mark: sheet.get_all_records() and the search for the row.
tpay_read_invoices(c) ==
    /\ txn[c].op = "process_payment" /\ txn[c].pc = "logged"
    /\ txn' = [txn EXCEPT ![c].pc = "invoices_read",
                          ![c].found = FirstIndex(invoices, LAMBDA r :
                                                     r.premise_id = txn[c].premise_id)]
    /\ lastOp' = NoOp
    /\ UNCHANGED <<store, cache, now, pay, conv, calls, q, fetch, sweep, month_now>>

\* mark_invoice_paid._mark: sheet.update(f"F{i}", [[0]]).
tpay_write_issued(c) ==
    /\ txn[c].op = "process_payment" /\ txn[c].pc = "invoices_read"
    /\ invoices' = IF txn[c].found = 0 THEN invoices
                   ELSE [invoices EXCEPT ![txn[c].found].issued = 0,
                                         ![txn[c].found].issued_text = FALSE]
    /\ txn' = [txn EXCEPT ![c].pc = "issued_written"]
    /\ lastOp' = NoOp
    /\ UNCHANGED <<premises, tenants, meters, readings, payments, tariffs,
                   cache, now, pay, conv, calls, q, fetch, sweep, month_now>>

\* mark_invoice_paid._mark: sheet.update(f"I{i}", [[today]]).
tpay_write_date(c) ==
    /\ txn[c].op = "process_payment" /\ txn[c].pc = "issued_written"
    /\ invoices' = IF txn[c].found = 0 THEN invoices
                   ELSE [invoices EXCEPT ![txn[c].found].pay_date = Today]
    /\ txn' = [txn EXCEPT ![c].pc = "date_written"]
    /\ lastOp' = NoOp
    /\ UNCHANGED <<premises, tenants, meters, readings, payments, tariffs,
                   cache, now, pay, conv, calls, q, fetch, sweep, month_now>>

\* mark_invoice_paid after the await: self.invalidate_cache("invoices"); the
\* transaction returns.
tpay_return(c) ==
    /\ txn[c].op = "process_payment" /\ txn[c].pc = "date_written"
    /\ cache' = invalidate_cache(cache, "invoices")
    /\ txn' = [txn EXCEPT ![c].pc = "returned"]
    /\ lastOp' = NoOp
    /\ UNCHANGED <<store, now, pay, conv, calls, q, fetch, sweep, month_now>>

\* The next request of a call raises: nothing is written, the exception
\* leaves the mutator and the invalidation that would follow is skipped.
txn_raise(c) ==
    /\ txn[c].pc \in {"meters_read", "invoices_read", "issued_written", "meters_marked",
                      "logged"}
    /\ txn' = [txn EXCEPT ![c].pc = "raised"]
    /\ lastOp' = NoOp
    /\ UNCHANGED <<store, cache, now, pay, conv, calls, q, fetch, sweep, month_now>>

(***************************************************************************)
(* SpecRecalc: update_invoice_amount store call by store call for two      *)
(* callers, next to the other writers of the invoice sheet.  A premise may *)
(* start without an invoice row.                                           *)
(***************************************************************************)
RecalcInvoiceInputs ==
    {<<>>, <<InitInvoice(1, 1, "i0")>>, <<InitInvoice(2, 2, "i0")>>, InitInvoices}

InitRecalc ==
    /\ premises = InitPremises
    /\ tenants = InitTenants
    /\ meters = InitMeters
    /\ readings = InitReadings
    /\ invoices \in RecalcInvoiceInputs
    /\ payments = <<>>
    /\ tariffs = InitTariffs
    /\ cache = <<>>
    /\ now = 0
    /\ pay = PayIdle
    /\ conv = [u \in TenantIds |-> NoConv]
    /\ lastOp = NoOp
    /\ calls = 0
    /\ q = NoQuery
    /\ fetch = [c \in CallIds |-> NoCall]
    /\ sweep = [r \in RunIds |-> NoRun]
    /\ month_now = 1
    /\ txn = [c \in TxnIds |-> NoTxn]

NextRecalc ==
    \/ \E c \in TxnIds, p \in {1, 2} : recalc_read_meters(c, p)
    \/ \E c \in TxnIds : recalc_read_invoices(c)
    \/ \E c \in TxnIds : recalc_write(c)
    \/ \E c \in TxnIds : recalc_return(c)
    \/ \E c \in TxnIds : txn_raise(c)
    \/ free(issue_invoice(1))
    \/ free(mark_invoice_paid(1))
    \/ free(clear_need_push(1))

SpecRecalc == InitRecalc /\ [][NextRecalc]_vars

(***************************************************************************)
(* SpecPay2: process_payment called by two callers, every store request a  *)
(* step of its own, between submissions of readings, issued invoices, new  *)
(* premises and new meters.                                                *)
(***************************************************************************)
\* Every meter has a reading that is not paid yet.
Pay2Meters ==
    <<InitMeter(1, 1, 1, 1), InitMeter(2, 1, 1, 2), InitMeter(3, 2, 2, 1)>>

\* Both invoices issued: cell F holds the amount issued.
Pay2Invoices ==
    <<[InitInvoice(1, 1, "i0") EXCEPT !.issued = 1],
      [InitInvoice(2, 2, "i0") EXCEPT !.issued = 1]>>

InitPay2 ==
    /\ premises = InitPremises
    /\ tenants = InitTenants
    /\ meters = Pay2Meters
    /\ readings = InitReadings
    /\ invoices = Pay2Invoices
    /\ payments = <<>>
    /\ tariffs = InitTariffs
    /\ cache = <<>>
    /\ now = 0
    /\ pay = PayIdle
    /\ conv = [u \in TenantIds |-> NoConv]
    /\ lastOp = NoOp
    /\ calls = 0
    /\ q = NoQuery
    /\ fetch = [c \in CallIds |-> NoCall]
    /\ sweep = [r \in RunIds |-> NoRun]
    /\ month_now = 1
    /\ txn = [c \in TxnIds |-> NoTxn]

NextPay2 ==
    \/ \E c \in TxnIds, p \in PremiseIds, input \in PayInputs : tpay_read_meters(c, p, input)
    \/ \E c \in TxnIds : tpay_write_meters(c)
    \/ \E c \in TxnIds : tpay_invalidate_meters(c)
    \/ \E c \in TxnIds : tpay_append_payment(c)
    \/ \E c \in TxnIds : tpay_read_invoices(c)
    \/ \E c \in TxnIds : tpay_write_issued(c)
    \/ \E c \in TxnIds : tpay_write_date(c)
    \/ \E c \in TxnIds : tpay_return(c)
    \/ \E c \in TxnIds : txn_raise(c)
    \/ /\ Len(readings) < Len(InitReadings) + MaxReadings
       /\ free(save_reading(1, 1, 1, MaxReading))
    \/ free(add_premise)
    \/ free(add_meter(2, "water", 2))

SpecPay2 == InitPay2 /\ [][NextPay2]_vars

(***************************************************************************)
(* The lookups of the service and its reading of boolean cells.  A cell    *)
(* read from a sheet is a Python value; the cells of the boolean columns   *)
(* are written with their type: b = bool, i = int, s or none = str.        *)
(***************************************************************************)
BoolCells == {"bTRUE", "bFALSE", "i1", "i0", "TRUE", "true", "True", "FALSE", "s1", ""}

\* str.upper() on the string cells.
upper(cell) == IF cell \in {"TRUE", "true", "True"} THEN "TRUE" ELSE cell

\* isinstance(value, str).
StrCells == {"TRUE", "true", "True", "FALSE", "s1", ""}

\* _is_true: `value is True`, or a str whose upper() is "TRUE".
is_true(cell) == cell = "bTRUE" \/ (cell \in StrCells /\ upper(cell) = "TRUE")

\* get_all_tenants: the records that are not the owner's.
get_all_tenants(records) == SelectSeq(records, LAMBDA r : ~is_true(r.is_owner))

\* get_owner: the first record of the owner, <<>> for None.
get_owner(records) ==
    LET i == FirstIndex(records, LAMBDA r : is_true(r.is_owner))
    IN  IF i = 0 THEN <<>> ELSE <<records[i]>>

\* get_premise, get_tenant, get_invoice_for_premise, get_tariff_by_type: the
\* first record with the key, <<>> for None.
get_premise(records, premise_id) ==
    LET i == FirstIndex(records, LAMBDA r : r.id = premise_id)
    IN  IF i = 0 THEN <<>> ELSE <<records[i]>>

get_tenant(records, telegram_id) ==
    LET i == FirstIndex(records, LAMBDA r : r.telegram_id = telegram_id)
    IN  IF i = 0 THEN <<>> ELSE <<records[i]>>

get_invoice_for_premise(records, premise_id) ==
    LET i == FirstIndex(records, LAMBDA r : r.premise_id = premise_id)
    IN  IF i = 0 THEN <<>> ELSE <<records[i]>>

get_tariff_by_type(records, tariff_type) ==
    LET i == FirstIndex(records, LAMBDA r : r.type = tariff_type)
    IN  IF i = 0 THEN <<>> ELSE <<records[i]>>

\* The dict of _get_all_settings: for every key <<>> when the dict has no
\* such key and <<cell>> when it has; a cell is "" or a text (payment_details)
\* and <<>> for "" or <<n>> for a number (the two days).
SettingKeys == {"payment_details", "readings_start_day", "readings_end_day"}
DefaultDetails == "no details given"
DefaultStartDay == 15
DefaultEndDay == 20

\* get_setting: settings_dict.get(key), <<>> for None.
get_setting(dict, key) == dict[key]

\* get_payment_details: `details or <default text>`.
get_payment_details(dict) ==
    LET details == get_setting(dict, "payment_details")
    IN  IF details = <<>> \/ details = <<"">> THEN DefaultDetails ELSE details[1]

\* `int(x) if x else d`: None, "" and 0 are false.
day_or(opt, d) == IF opt = <<>> \/ opt = <<<<>>>> \/ opt = <<<<0>>>> THEN d ELSE opt[1][1]

\* get_readings_period.
get_readings_period(dict) ==
    <<day_or(dict["readings_start_day"], DefaultStartDay),
      day_or(dict["readings_end_day"], DefaultEndDay)>>

(***************************************************************************)
(* SpecLookup: the lookups applied to record lists and settings drawn from *)
(* bounded sets.                                                           *)
(***************************************************************************)
LookupIds == 1..(MaxRows + 1)
PremiseInputs ==
    {[i \in Indices(ids) |-> [id |-> ids[i], name |-> PremiseNames[i]]] :
        ids \in SeqsUpTo(1..MaxRows, MaxRows)}
TenantInputs ==
    {[i \in Indices(cells) |-> [telegram_id |-> i, is_owner |-> cells[i]]] :
        cells \in SeqsUpTo(BoolCells, MaxRows)}
PushInputs ==
    {[i \in Indices(cells) |-> [premise_id |-> i, need_push |-> cells[i]]] :
        cells \in SeqsUpTo(BoolCells, MaxRows)}
TariffInputs ==
    {<<>>, <<[type |-> "electricity", value |-> 1]>>,
     <<[type |-> "electricity", value |-> 1], [type |-> "water", value |-> 2]>>}
StartDayCells == {<<>>, <<0>>, <<5>>, <<DefaultStartDay>>}
EndDayCells == {<<>>, <<0>>, <<25>>, <<DefaultEndDay>>}
Opt(S) == {<<>>} \cup {<<x>> : x \in S}
SettingsInputs ==
    [payment_details : Opt({"", "details"}),
     readings_start_day : Opt(StartDayCells),
     readings_end_day : Opt(EndDayCells)]

Lookup(kind, records) == [kind |-> kind, records |-> records, op |-> "none", arg |-> "", out |-> <<>>]

InitLookup ==
    /\ premises = InitPremises
    /\ tenants = InitTenants
    /\ meters = InitMeters
    /\ readings = InitReadings
    /\ invoices = InitInvoices
    /\ payments = <<>>
    /\ tariffs = InitTariffs
    /\ cache = <<>>
    /\ now = 0
    /\ pay = PayIdle
    /\ conv = [u \in TenantIds |-> NoConv]
    /\ lastOp = NoOp
    /\ calls = 0
    /\ fetch = [c \in CallIds |-> NoCall]
    /\ sweep = [r \in RunIds |-> NoRun]
    /\ month_now = 1
    /\ txn = [c \in TxnIds |-> NoTxn]
    /\ \/ \E records \in PremiseInputs : q = Lookup("premises", records)
       \/ \E records \in TenantInputs : q = Lookup("tenants", records)
       \/ \E records \in MeterInputs : q = Lookup("meters", records)
       \/ \E records \in PushInputs : q = Lookup("invoices", records)
       \/ \E records \in TariffInputs : q = Lookup("tariffs", records)
       \/ \E dict \in SettingsInputs : q = Lookup("settings", dict)

look(kind, op, arg, out) ==
    /\ q.kind = kind
    /\ q' = [q EXCEPT !.op = op, !.arg = arg, !.out = out]
    /\ UNCHANGED <<store, cache, now, pay, conv, lastOp, calls, fetch, sweep, month_now, txn>>

NextLookup ==
    \/ \E id \in LookupIds : look("premises", "get_premise", id, get_premise(q.records, id))
    \/ \E id \in LookupIds : look("tenants", "get_tenant", id, get_tenant(q.records, id))
    \/ look("tenants", "get_owner", 0, get_owner(q.records))
    \/ look("tenants", "get_all_tenants", 0, get_all_tenants(q.records))
    \/ \E id \in 1..(MaxRows + 2) : look("meters", "get_meter", id, get_meter(q.records, id))
    \/ \E id \in LookupIds :
          look("invoices", "get_invoice_for_premise", id, get_invoice_for_premise(q.records, id))
    \/ look("invoices", "get_invoices_needing_push", 0, get_invoices_needing_push(q.records))
    \/ \E type \in TariffTypes :
          look("tariffs", "get_tariff_by_type", type, get_tariff_by_type(q.records, type))
    \/ \E key \in SettingKeys : look("settings", "get_setting", key, get_setting(q.records, key))
    \/ look("settings", "get_payment_details", "", get_payment_details(q.records))
    \/ look("settings", "get_readings_period", "", get_readings_period(q.records))

SpecLookup == InitLookup /\ [][NextLookup]_vars

(***************************************************************************)
(* SpecInput: the numeric mutators called with numbers and with a value    *)
(* that is not a number, against every state of the cache.                 *)
(***************************************************************************)
\* A value that is not a number (a str such as "abc" passed as new_value or
\* reading): the cells of the model hold integers and this one stands for
\* the text.
NonNumeric == 0 - 1
InputValues == ReadingValues \cup {NonNumeric}

NextInput ==
    \/ \E key \in {"meters", "readings", "tariffs"} : free(get_all(key))
    \/ \E t \in TariffTypes, v \in InputValues : counted(update_tariff(t, v))
    \/ \E m \in {1, 3}, v \in InputValues : counted(update_meter_last_reading(m, v))
    \/ \E m \in {1, 3}, v \in InputValues :
          counted(save_reading(m, MeterRow(m).premise_id, MeterRow(m).resp_readings, v))

SpecInput == Init /\ [][NextInput]_vars

(***************************************************************************)
(* SpecRoll: the readings map asked for by two callers while the month     *)
(* changes: the key is formatted when the call begins, the month of the    *)
(* rows when the log has been read.                                        *)
(***************************************************************************)
\* datetime.now() passes from month 1 to month 2.
Rollover ==
    /\ month_now = 1
    /\ month_now' = 2
    /\ UNCHANGED <<store, cache, now, pay, conv, lastOp, calls, q, fetch, sweep, txn>>

NextRoll ==
    \/ \E c \in CallIds : readings_map_begin(c)
    \/ \E c \in CallIds : accessor_store_call(c)
    \/ \E c \in CallIds : accessor_store_call_fails(c)
    \/ \E c \in CallIds : accessor_end(c)
    \/ \E m \in {1, 3} :
          /\ Len(readings) < Len(InitReadings) + MaxReadings
          /\ free(save_reading(m, MeterRow(m).premise_id, MeterRow(m).resp_readings, MaxReading))
    \/ free(Tick)
    \/ Rollover

SpecRoll == Init /\ [][NextRoll]_vars

(***************************************************************************)
(* SpecFail: mark_invoice_paid and save_reading with a store request that  *)
(* raises after an earlier write of the same call took effect, between     *)
(* cached reads and issued invoices.                                       *)
(***************************************************************************)
\* mark_invoice_paid whose update of F{i} took effect and whose update of
\* I{i} raises: the exception leaves _mark and the await; the
\* invalidate_cache that follows the await is not reached.
mark_invoice_paid_date_fails(premise_id) ==
    /\ NoPayment
    /\ HasInvoice(premise_id)
    /\ invoices' = mark_invoice_paid_amount(invoices, premise_id)
    /\ cache' = cache
    /\ lastOp' = Ret("mark_invoice_paid", premise_id, 0, "", FALSE)
    /\ pay' = PayIdle
    /\ UNCHANGED <<premises, tenants, meters, readings, payments, tariffs, now, conv>>

\* save_reading whose append took effect and whose update_meter_last_reading
\* raises: invalidate_cache("readings") has run before the call.
save_reading_meter_fails(meter_id, premise_id, telegram_id, reading) ==
    /\ NoPayment
    /\ readings' = save_reading_rows(readings, meter_id, premise_id, telegram_id, reading)
    /\ cache' = invalidate_cache(cache, "readings")
    /\ lastOp' = Ret("save_reading", meter_id, reading, "", FALSE)
    /\ pay' = PayIdle
    /\ UNCHANGED <<premises, tenants, meters, invoices, payments, tariffs, now, conv>>

NextFail ==
    \/ \E key \in BillingKeys : free(get_all(key))
    \/ free(Tick)
    \/ \E p \in {1, 2} : free(issue_invoice(p))
    \/ \E p \in {1, 2} : free(mark_invoice_paid(p))
    \/ \E p \in {1, 2} : free(mark_invoice_paid_date_fails(p))
    \/ \E m \in {1, 3}, v \in ReadingValues :
          /\ Len(readings) < Len(InitReadings) + MaxReadings
          /\ free(save_reading(m, MeterRow(m).premise_id, MeterRow(m).resp_readings, v))
    \/ \E m \in {1, 3}, v \in ReadingValues :
          /\ Len(readings) < Len(InitReadings) + MaxReadings
          /\ free(save_reading_meter_fails(m, MeterRow(m).premise_id,
                                           MeterRow(m).resp_readings, v))

SpecFail == Init /\ [][NextFail]_vars


(***************************************************************************)
(* C1  Cache coherence, sequential case.                                   *)
(***************************************************************************)
\* The cache keys of the collections a mutator writes (the worksheet each
\* mutator opens for writing, and the accessor that caches that worksheet).
WrittenKeys(op) ==
    CASE op = "add_premise" -> {"premises"}
      [] op = "add_tenant" -> {"tenants_raw"}
      [] op = "add_meter" -> {"meters"}
      [] op = "update_meter_last_reading" -> {"meters"}
      [] op = "save_reading" -> {"readings", "meters"}
      [] op = "issue_invoice" -> {"invoices"}
      [] op = "update_invoice_amount" -> {"invoices"}
      [] op = "mark_invoice_paid" -> {"invoices"}
      [] op = "clear_need_push" -> {"invoices"}
      [] op = "update_tariff" -> {"tariffs"}
      [] op = "process_payment" -> {"meters", "invoices"}
      [] OTHER -> {}

\* C1: when a mutator has returned normally and nothing but the clock has
\* moved since, the cached read of every collection it wrote returns the
\* rows the store holds now.
C1_CacheCoherent ==
    lastOp.ok => \A key \in WrittenKeys(lastOp.op) : ReadResult(key) = StoreRecords(key)

\* A mutator returned whose written collections were all cached when it ran.
C1_Witness ==
    /\ lastOp.op \in {"save_reading", "process_payment", "add_tenant"}
    /\ lastOp.ok
    /\ lastOp.dropped # {}
    /\ lastOp.dropped \subseteq WrittenKeys(lastOp.op)

(***************************************************************************)
(* C2  The result of a payment transaction that returned.                  *)
(***************************************************************************)
PayRow ==
    [premise_id |-> pay.premise_id, telegram_id |-> pay.telegram_id,
     amount |-> pay.amount, receipt |-> pay.receipt]

\* C2: after process_payment has returned normally the payment log is the
\* log it found plus one row carrying the call's premise, amount and
\* receipt, and the issued amount of the premise's invoice row is 0.
C2_PaymentResult ==
    pay.pc = "returned" =>
        /\ Len(payments) = Len(pay.pre.payments) + 1
        /\ SubSeq(payments, 1, Len(pay.pre.payments)) = pay.pre.payments
        /\ payments[Len(payments)].premise_id = pay.premise_id
        /\ payments[Len(payments)].amount = pay.amount
        /\ payments[Len(payments)].receipt = pay.receipt
        /\ \A i \in Indices(invoices) :
              invoices[i].premise_id = pay.premise_id =>
                  invoices[i].issued = 0 /\ ~invoices[i].issued_text

\* A payment returned for an invoice that had been issued with a positive amount.
C2_Witness ==
    /\ pay.pc = "returned"
    /\ \E i \in Indices(pay.pre.invoices) :
          /\ pay.pre.invoices[i].premise_id = pay.premise_id
          /\ pay.pre.invoices[i].issued > 0

(***************************************************************************)
(* C3  Step ordering of the payment transaction.                           *)
(***************************************************************************)
MetersMarked ==
    \A i \in Indices(meters) :
        meters[i].premise_id = pay.premise_id =>
            /\ meters[i].paid_reading = pay.pre.meters[i].last_reading
            /\ meters[i].paid_date = Today

\* C3: in every state of a payment transaction, also after a failed store
\* call, the invoice rows differ from those the call found only if the
\* call's payment row is in the log, and the row is in the log only if the
\* premise's meters are marked paid.
C3_StepOrder ==
    pay.pc # "idle" =>
        /\ invoices # pay.pre.invoices => payments = Append(pay.pre.payments, PayRow)
        /\ payments # pay.pre.payments => MetersMarked
        /\ pay.pc = "returned" => payments = Append(pay.pre.payments, PayRow)

\* The invoice reset failed half-way: the amount is reset, the call raised.
C3_Witness ==
    /\ pay.pc = "raised"
    /\ pay.failed_step = 3
    /\ invoices # pay.pre.invoices

(***************************************************************************)
(* C4  Payment is idempotent on the paid reading.                          *)
(***************************************************************************)
\* The call that returned before this payment was a payment of the same premise.
PaidTwice ==
    /\ pay.pc = "returned"
    /\ pay.after.op = "process_payment"
    /\ pay.after.ok
    /\ pay.after.a = pay.premise_id

\* C4: when process_payment returns right after a process_payment of the
\* same premise, every meter of the premise keeps the paid reading the
\* first call left, and that is the meter's last reading.
C4_PaidReadingIdempotent ==
    PaidTwice =>
        \A i \in Indices(meters) :
            meters[i].premise_id = pay.premise_id =>
                /\ meters[i].paid_reading = pay.pre.meters[i].paid_reading
                /\ meters[i].paid_reading = meters[i].last_reading

\* Two payments in succession for a premise with a meter that has been read.
C4_Witness ==
    /\ PaidTwice
    /\ \E i \in Indices(meters) :
          meters[i].premise_id = pay.premise_id /\ meters[i].last_reading > 0

(***************************************************************************)
(* C5  No compensating rollback.                                           *)
(***************************************************************************)
\* C5: when the append of the payment row fails the call raises, the meters
\* stay marked paid, the log and the invoices are as the call found them;
\* when the invoice reset fails the call raises, the meters stay marked
\* paid and the payment row stays in the log.
C5_NoRollback ==
    /\ (pay.pc = "raised" /\ pay.failed_step = 2) =>
          /\ lastOp.op = "process_payment" /\ ~lastOp.ok
          /\ MetersMarked
          /\ payments = pay.pre.payments
          /\ invoices = pay.pre.invoices
    /\ (pay.pc = "raised" /\ pay.failed_step = 3) =>
          /\ lastOp.op = "process_payment" /\ ~lastOp.ok
          /\ MetersMarked
          /\ payments = Append(pay.pre.payments, PayRow)

\* The append failed after step 1 had changed a paid reading.
C5_Witness ==
    /\ pay.pc = "raised"
    /\ pay.failed_step = 2
    /\ meters # pay.pre.meters
    /\ \E i \in Indices(meters) :
          meters[i].paid_reading # pay.pre.meters[i].paid_reading

(***************************************************************************)
(* C6  issue_invoice reads the amount from the store.                      *)
(***************************************************************************)
\* C6: a step in which issue_invoice finds the premise's row leaves the
\* row's issued amount equal to the amount the store computed for the row
\* when the step started, whatever the cache held; and when that amount is
\* positive the invoice read after the step has the status Unpaid.
C6_IssuedFromStore ==
    [][\A p \in PremiseIds :
          (lastOp'.op = "issue_invoice" /\ lastOp'.a = p /\ lastOp'.ok) =>
              LET i == FirstIndex(invoices, LAMBDA r : r.premise_id = p)
              IN  /\ i # 0
                  /\ invoices'[i].issued = InvoiceSum(invoices[i])
                  /\ ~invoices'[i].issued_text
                  /\ InvoiceSum(invoices[i]) > 0 =>
                        /\ Len(ReadResult("invoices")') = Len(invoices)
                        /\ ReadResult("invoices")'[i].premise_id = p
                        /\ ReadResult("invoices")'[i].status = "Unpaid"]_vars

\* issue_invoice ran on a cached invoice list and issued an amount that a
\* reading saved after the start had produced.
C6_Witness ==
    /\ lastOp.op = "issue_invoice"
    /\ lastOp.ok
    /\ "invoices" \in lastOp.dropped
    /\ Len(readings) > Len(InitReadings)
    /\ InvoiceRow(lastOp.a).issued > 0
    /\ InvoiceRow(lastOp.a).issued # InvoiceSum(InitInvoices[1])

(***************************************************************************)
(* C7  The issued amount between issue and payment.                        *)
(***************************************************************************)
\* C7: a positive issued amount of an invoice row is changed by no step
\* other than the invoice reset of a payment transaction.
C7_IssuedAmountFrozen ==
    [][\A i \in Indices(invoices) :
          (invoices[i].issued > 0 /\ pay.pc # "logged") =>
              invoices'[i].issued = invoices[i].issued]_vars

(***************************************************************************)
(* C8  issue_invoice for a premise without an invoice row.                 *)
(***************************************************************************)
\* C8: a step in which issue_invoice is called for a premise that has no
\* invoice row reports failure, writes nothing to the store and leaves the
\* cache as it was.
C8_IssueNotFound ==
    [][\A p \in PremiseIds :
          (lastOp'.op = "issue_invoice" /\ lastOp'.a = p /\ ~HasInvoice(p)) =>
              /\ ~lastOp'.ok
              /\ store' = store
              /\ cache' = cache]_vars

\* issue_invoice reported failure while the invoice list was cached.
C8_Witness ==
    /\ lastOp.op = "issue_invoice"
    /\ ~lastOp.ok
    /\ ~HasInvoice(lastOp.a)
    /\ "invoices" \in DOMAIN cache

(***************************************************************************)
(* C9  The last reading over the tenants' submissions.                     *)
(***************************************************************************)
\* C9: no step of the tenants' reading conversations, interleaved in any
\* way, lowers the last reading of a meter.
C9_LastReadingMonotone ==
    [][\A i \in Indices(meters) :
          meters'[i].last_reading >= meters[i].last_reading]_vars

(***************************************************************************)
(* C10  The effect of save_reading.                                        *)
(***************************************************************************)
\* C10: a step in which save_reading(meter, value) returns appends exactly
\* one row to the readings log, carrying the meter id and the value, sets
\* the meter's last reading to the value, and changes neither the last nor
\* the paid reading of any other meter.
C10_SaveReadingEffect ==
    [][lastOp'.op = "save_reading" =>
          /\ Len(readings') = Len(readings) + 1
          /\ SubSeq(readings', 1, Len(readings)) = readings
          /\ readings'[Len(readings')].meter_id = lastOp'.a
          /\ readings'[Len(readings')].value = lastOp'.b
          /\ Len(meters') = Len(meters)
          /\ \A i \in Indices(meters) :
                IF meters[i].id = lastOp'.a
                THEN meters'[i].last_reading = lastOp'.b
                ELSE /\ meters'[i].last_reading = meters[i].last_reading
                     /\ meters'[i].paid_reading = meters[i].paid_reading]_vars

\* save_reading returned with a value other than the meter's earlier reading.
C10_Witness ==
    /\ lastOp.op = "save_reading"
    /\ lastOp.ok
    /\ Len(readings) = Len(InitReadings) + 1
    /\ readings[Len(readings)].meter_id = lastOp.a
    /\ \E i \in Indices(meters) :
          /\ meters[i].id = lastOp.a
          /\ meters[i].last_reading = lastOp.b
          /\ InitMeters[i].last_reading # lastOp.b

(***************************************************************************)
(* C11  The unpaid-invoice filters.                                        *)
(***************************************************************************)
\* C11: every invoice get_unpaid_invoices_for_tenant(t) or
\* get_all_unpaid_invoices returns is one of the given invoices, has the
\* status Unpaid and holds an amount greater than 0 (never an empty one);
\* those get_unpaid_invoices_for_tenant(t) returns have the
\* payment-responsible id t.
C11_UnpaidFilters ==
    q.op \in {"get_unpaid_invoices_for_tenant", "get_all_unpaid_invoices"} =>
        \A i \in Indices(q.out) :
            /\ \E j \in Indices(q.invoices) : q.invoices[j] = q.out[i]
            /\ q.out[i].status = "Unpaid"
            /\ q.out[i].sum # <<>>
            /\ q.out[i].sum[1] > 0
            /\ q.op = "get_unpaid_invoices_for_tenant" => q.out[i].resp_payment = q.arg

\* The tenant's invoices hold one with status Unpaid and no positive amount
\* next to one that is returned.
C11_Witness ==
    /\ q.op = "get_unpaid_invoices_for_tenant"
    /\ Len(q.out) = 1
    /\ \E j \in Indices(q.invoices) :
          /\ q.invoices[j].resp_payment = q.arg
          /\ q.invoices[j].status = "Unpaid"
          /\ q.invoices[j].sum \in {<<>>, <<0>>, <<0 - 1>>}

(***************************************************************************)
(* C12  get_tenants_without_readings.                                      *)
(***************************************************************************)
\* The rows of the given log for a meter id that are dated in the given month.
MonthRows(meter_id) ==
    {j \in Indices(q.readings) :
        /\ q.readings[j].meter_id = meter_id
        /\ q.readings[j].date # <<>>
        /\ <<q.readings[j].date[1]>> = q.month}

\* The names of a tenant's meters without a row of the month, in meter order.
OwedNames(tid) ==
    LET owed == SelectSeq(q.meters,
                    LAMBDA m : m.resp_readings = tid /\ MonthRows(m.id) = {})
    IN  [i \in Indices(owed) |-> owed[i].name]

\* C12: get_tenants_without_readings returns one record for each
\* reading-responsible tenant with a meter that has no row of the current
\* month, none for any other tenant, and the record lists exactly the names
\* of that tenant's meters without such a row.
C12_TenantsWithoutReadings ==
    q.op = "get_tenants_without_readings" =>
        /\ \A t \in TenantIds :
              Cardinality({i \in Indices(q.out) : q.out[i].telegram_id = t})
                  = IF OwedNames(t) = <<>> THEN 0 ELSE 1
        /\ \A i \in Indices(q.out) :
              /\ q.out[i].telegram_id \in TenantIds
              /\ q.out[i].meters = OwedNames(q.out[i].telegram_id)

\* Meters 1 and 2 of tenant 1, a current-month row for meter 1 only: one
\* record, for tenant 1, listing meter 2 only.
C12_Witness ==
    /\ q.op = "get_tenants_without_readings"
    /\ Len(q.meters) = 2
    /\ q.meters[1].resp_readings = 1
    /\ q.meters[2].resp_readings = 1
    /\ MonthRows(1) # {}
    /\ MonthRows(2) = {}
    /\ q.out = <<[telegram_id |-> 1, meters |-> <<"m2">>]>>

(***************************************************************************)
(* C13  get_readings_status.                                               *)
(***************************************************************************)
\* C13: get_readings_status returns one entry per meter, in meter order;
\* readings_count is the number of rows of the log with the meter's id that
\* are dated in the current month, and has_readings says it is not 0.
C13_ReadingsStatus ==
    q.op = "get_readings_status" =>
        /\ Len(q.out) = Len(q.meters)
        /\ \A i \in Indices(q.meters) :
              /\ q.out[i].meter = q.meters[i]
              /\ q.out[i].readings_count = Cardinality(MonthRows(q.meters[i].id))
              /\ q.out[i].has_readings <=> MonthRows(q.meters[i].id) # {}

\* A meter with a row of the current month and a meter with a row of
\* another month only.
C13_Witness ==
    /\ q.op = "get_readings_status"
    /\ \E i, j \in Indices(q.out) :
          /\ q.out[i].has_readings
          /\ ~q.out[j].has_readings
          /\ \E k \in Indices(q.readings) :
                /\ q.readings[k].meter_id = q.meters[j].id
                /\ q.readings[k].date # <<>>

(***************************************************************************)
(* C14  get_tenants_with_unpaid.                                           *)
(***************************************************************************)
\* The given invoices of a tenant with status Unpaid and a positive amount.
OwedInvoices(tid) ==
    SelectSeq(q.invoices,
        LAMBDA r : /\ r.resp_payment = tid
                   /\ r.status = "Unpaid"
                   /\ r.sum # <<>>
                   /\ r.sum[1] > 0)

\* C14: get_tenants_with_unpaid returns one record for each
\* payment-responsible tenant with an invoice of status Unpaid and positive
\* amount, none for any other tenant; the record's total is the sum of the
\* amounts of exactly those invoices and its premises are their premise
\* names.
C14_TenantsWithUnpaid ==
    q.op = "get_tenants_with_unpaid" =>
        /\ \A t \in TenantIds :
              Cardinality({i \in Indices(q.out) : q.out[i].telegram_id = t})
                  = IF OwedInvoices(t) = <<>> THEN 0 ELSE 1
        /\ \A i \in Indices(q.out) :
              LET owed == OwedInvoices(q.out[i].telegram_id)
              IN  /\ q.out[i].telegram_id \in TenantIds
                  /\ q.out[i].total = SumSeq([k \in Indices(owed) |-> owed[k].sum[1]])
                  /\ q.out[i].premises = [k \in Indices(owed) |-> owed[k].premise]

\* Two invoices of one tenant are summed.
C14_Witness ==
    /\ q.op = "get_tenants_with_unpaid"
    /\ Len(q.out) = 1
    /\ Len(q.out[1].premises) = 2
    /\ q.out[1].total = 3


(***************************************************************************)
(* C15  The TTL lookup.                                                    *)
(***************************************************************************)
\* C15: a lookup of a key by a cached accessor returns the stored value
\* exactly when the key is set and less than CACHE_TTL seconds have passed
\* since it was stored, and then the cache is left as it was; when the key is
\* set but has reached the TTL the lookup misses and removes that entry; a
\* lookup never adds a key and never changes the entry of any other key.
C15_Lookup ==
    [][\A c \in CallIds :
          (~InFlight(fetch[c]) /\ fetch'[c] # fetch[c] /\ ~fetch'[c].map) =>
             LET key == fetch'[c].key
                 fresh == key \in DOMAIN cache /\ now - cache[key].time < CACHE_TTL
             IN  /\ (fetch'[c].pc = "hit") <=> fresh
                 /\ fresh => fetch'[c].data = cache[key].data /\ cache' = cache
                 /\ ~fresh => /\ fetch'[c].pc = "missed"
                              /\ DOMAIN cache' = (DOMAIN cache) \ {key}
                              /\ \A k \in DOMAIN cache' : cache'[k] = cache[k]]_vars

\* A lookup has missed on an entry that was stored and has reached the TTL,
\* and the entry is gone.
C15_Witness ==
    \E c, d \in CallIds :
        /\ fetch[c].pc = "missed" /\ ~fetch[c].map
        /\ fetch[d].pc = "stored" /\ ~fetch[d].map /\ fetch[d].key = fetch[c].key
        /\ fetch[c].evicted
        /\ now >= CACHE_TTL
        /\ fetch[c].key \notin DOMAIN cache
        /\ DOMAIN cache # {}

(***************************************************************************)
(* C16  Invalidation by substring.                                         *)
(***************************************************************************)
\* The step is a call of invalidate_cache on its own.
InvalidateStep == lastOp'.op = "invalidate_cache"

\* C16: invalidate_cache(None) leaves the cache empty; invalidate_cache(pattern)
\* removes exactly the keys that contain the pattern as a substring and leaves
\* the value and the timestamp of every other key unchanged; with the pattern
\* "readings", on its own or inside save_reading, neither the readings key
\* nor the readings_map_<month> key is left.
C16_Invalidate ==
    [][/\ InvalidateStep =>
            LET pattern == lastOp'.s
            IN  /\ pattern = None => DOMAIN cache' = {}
                /\ pattern # None =>
                      /\ DOMAIN cache' = {k \in DOMAIN cache : ~Contains(pattern, k)}
                      /\ \A k \in DOMAIN cache' : cache'[k] = cache[k]
                /\ pattern = "readings" =>
                      DOMAIN cache' = (DOMAIN cache) \ {"readings", readings_map_key}
       /\ readings' # readings =>
            /\ DOMAIN cache' = (DOMAIN cache) \ {"readings", readings_map_key, "meters"}
            /\ \A k \in DOMAIN cache' : cache'[k] = cache[k]]_vars

\* invalidate_cache("readings") has removed the readings key and the map key
\* of the month and has left the tenants key.
C16_Witness ==
    /\ lastOp.op = "invalidate_cache"
    /\ lastOp.s = "readings"
    /\ lastOp.dropped = {"readings", readings_map_key}
    /\ DOMAIN cache = {"tenants_raw"}

(***************************************************************************)
(* C17  No negative caching.                                               *)
(***************************************************************************)
\* C17: when the store call of a cached accessor fails, the call ends with
\* the failure and makes no second store call; the failure creates and
\* refreshes no cache entry, so that, unless another caller has stored the
\* key meanwhile, the key is absent afterwards; and a call of an accessor
\* whose key is absent issues a store call.
C17_NoNegativeCaching ==
    [][\A c \in CallIds :
          /\ (fetch[c].pc = "missed" /\ fetch'[c].pc = "raised") =>
                /\ cache' = cache
                /\ fetch[c].alone => store_key(fetch[c]) \notin DOMAIN cache'
          /\ (fetch[c].pc = "raised" /\ fetch'[c] # fetch[c]) =>
                fetch'[c].pc \in {"hit", "missed", "stored"}
          /\ (~InFlight(fetch[c]) /\ fetch'[c] # fetch[c] /\ ~fetch'[c].map
                 /\ fetch'[c].key \notin DOMAIN cache) => fetch'[c].pc = "missed"
          /\ (~InFlight(fetch[c]) /\ fetch'[c] # fetch[c] /\ fetch'[c].map
                 /\ DOMAIN cache = {}) => fetch'[c].pc = "missed"]_vars

\* A store call has failed, its key is not cached, and the next call of the
\* accessor has made a new store call.
C17_Witness ==
    \E c, d \in CallIds :
        /\ fetch[c].pc = "raised" /\ fetch[c].alone
        /\ store_key(fetch[c]) \notin DOMAIN cache
        /\ fetch[d].pc = "fetched" /\ fetch[d].alone
        /\ store_key(fetch[d]) = store_key(fetch[c])

(***************************************************************************)
(* C18  One store round trip per collection and TTL window.                *)
(***************************************************************************)
\* C18: while the entry of a key is cached and younger than CACHE_TTL, no
\* store call for that key is made and no accessor call for it returns
\* other than from the cache, also when several calls are in progress.
C18_OneFetchPerWindow ==
    [][\A c \in CallIds :
          /\ (fetch[c].pc = "missed" /\ fetch'[c].pc = "fetched") =>
                ~cache_hit(cache, store_key(fetch[c]))
          /\ (fetch[c].pc = "fetched" /\ fetch'[c].pc = "stored") =>
                ~cache_hit(cache, store_key(fetch[c]))]_vars

(***************************************************************************)
(* C19  The push sweep clears the flag after every send attempt.           *)
(***************************************************************************)
\* The number of send attempts, and of clear_need_push calls, a run has made
\* for a premise.
SendsFor(run, p) ==
    Cardinality({i \in Indices(run.sends) : run.sends[i].premise_id = p})

ClearsFor(run, p) == Cardinality({i \in Indices(run.clears) : run.clears[i] = p})

\* C19: in one run of the sweep, a premise for which a send was attempted,
\* whether the send succeeded or raised, has had clear_need_push called
\* exactly once, or the run is at that call; no premise is sent or cleared
\* twice, and no run leaves a send attempt without the clear call.
C19_SendThenClear ==
    \A r \in RunIds, p \in PremiseIds :
        LET run == sweep[r]
        IN  /\ SendsFor(run, p) <= 1
            /\ ClearsFor(run, p) <= 1
            /\ SendsFor(run, p) = 1 =>
                  \/ ClearsFor(run, p) = 1
                  \/ /\ run.pc = "clear"
                     /\ current(run).premise_id = p
                     /\ ClearsFor(run, p) = 0

\* A run has finished in which a send raised and the flag of that premise
\* was cleared.
C19_Witness ==
    \E r \in RunIds :
        /\ sweep[r].pc = "done"
        /\ \E i \in Indices(sweep[r].sends) :
              /\ ~sweep[r].sends[i].ok
              /\ ClearsFor(sweep[r], sweep[r].sends[i].premise_id) = 1

(***************************************************************************)
(* C20  Overlapping runs of the push sweep.                                *)
(***************************************************************************)
\* C20: when a second run of the sweep starts while a run is in progress, no
\* premise whose flag was set once is sent a notification by both runs (a
\* send that raised delivers nothing and does not count).
C20_NoDoubleSend ==
    \A p \in PremiseIds :
        ~ /\ sweep[1].overlap /\ sweep[2].overlap
          /\ \A r \in RunIds : \E i \in Indices(sweep[r].sends) :
                sweep[r].sends[i].premise_id = p /\ sweep[r].sends[i].ok

(***************************************************************************)
(* C21  update_invoice_amount.                                             *)
(***************************************************************************)
\* C21: the write of update_invoice_amount(premise), made on the rows it has
\* just read, uses the sum of the unbilled amounts of the premise's meters;
\* with no row of the premise and a total > 0 it appends one row, which has
\* no issued amount and reads as Draft; with a row it changes only the
\* computed-amount cell of that row; with no row and a total <= 0 it writes
\* nothing.
C21_Recalculate ==
    [][\A c \in TxnIds :
          (/\ txn[c].op = "update_invoice_amount"
           /\ txn[c].pc = "invoices_read" /\ txn'[c].pc = "written"
           /\ txn[c].found = FirstIndex(invoices, LAMBDA r :
                                           r.premise_id = txn[c].premise_id)
           /\ txn[c].total = invoice_total(txn[c].premise_id)) =>
             LET p == txn[c].premise_id
                 i == txn[c].found
                 total == txn[c].total
                 n == Len(invoices)
             IN  /\ (i = 0 /\ total > 0) =>
                       /\ Len(invoices') = n + 1
                       /\ SubSeq(invoices', 1, n) = invoices
                       /\ invoices'[n + 1].premise_id = p
                       /\ InvoiceSum(invoices'[n + 1]) = total
                       /\ invoices'[n + 1].issued = 0
                       /\ ~invoices'[n + 1].issued_text
                       /\ InvoiceStatus(invoices'[n + 1]) = "Draft"
                 /\ i # 0 =>
                       /\ InvoiceSum(invoices'[i]) = total
                       /\ invoices' = [invoices EXCEPT
                                          ![i].sum_formula = invoices'[i].sum_formula,
                                          ![i].sum_value = invoices'[i].sum_value]
                 /\ (i = 0 /\ total <= 0) => invoices' = invoices]_vars

(***************************************************************************)
(* C22  One invoice row per premise.                                       *)
(***************************************************************************)
\* C22: in every reachable state there is at most one invoice row per premise.
C22_OneRowPerPremise ==
    \A p \in PremiseIds :
        Cardinality({i \in Indices(invoices) : invoices[i].premise_id = p}) <= 1

(***************************************************************************)
(* C24  Store-derived cells.                                               *)
(***************************************************************************)
\* C24: no step writes the computed-amount cell or the status cell of an
\* invoice row: a row that stays keeps the formulas of both cells, and a row
\* that is appended leaves both cells to the formulas.
C24_DerivedCellsNotWritten ==
    [][\A i \in Indices(invoices') :
          IF i <= Len(invoices)
          THEN /\ invoices'[i].sum_formula = invoices[i].sum_formula
               /\ invoices'[i].sum_value = invoices[i].sum_value
               /\ invoices'[i].status_formula = invoices[i].status_formula
          ELSE /\ invoices'[i].sum_formula
               /\ invoices'[i].status_formula]_vars

(***************************************************************************)
(* C23  Append-only logs.                                                  *)
(***************************************************************************)
\* C23: every step keeps each row of the readings log and of the payment log
\* unchanged and in its position (the logs only grow at the end), and keeps
\* every premise row and every meter row in the store.
C23_AppendOnly ==
    [][/\ Len(readings') >= Len(readings)
       /\ SubSeq(readings', 1, Len(readings)) = readings
       /\ Len(payments') >= Len(payments)
       /\ SubSeq(payments', 1, Len(payments)) = payments
       /\ Len(premises') >= Len(premises)
       /\ \A i \in Indices(premises) : premises'[i] = premises[i]
       /\ Len(meters') >= Len(meters)
       /\ \A i \in Indices(meters) : /\ meters'[i].id = meters[i].id
                                     /\ meters'[i].premise_id = meters[i].premise_id]_vars

\* Both logs, the premises and the meters have grown, and the two payment
\* rows are of different premises.
C23_Witness ==
    /\ Len(readings) > Len(InitReadings)
    /\ Len(payments) = 2 /\ payments[1].premise_id # payments[2].premise_id
    /\ Len(premises) > Len(InitPremises)
    /\ Len(meters) > Len(Pay2Meters)

(***************************************************************************)
(* C25  Two payments for different premises.                               *)
(***************************************************************************)
\* C25: when two process_payment calls for different premises have both
\* returned, in whatever order their store requests were made, and nothing
\* else has written the meters, the store is the one a serial execution
\* leaves: every meter of the two premises has paid reading = last reading,
\* the meters of every other premise are as they were, the payment log holds
\* exactly one row for each of the two premises, and each of the two invoices
\* has issued amount 0 while every other invoice is as it was.
C25_DifferentPremisesSerial ==
    (/\ \A c \in TxnIds : txn[c].op = "process_payment" /\ txn[c].pc = "returned"
     /\ txn[1].premise_id # txn[2].premise_id
     /\ readings = InitReadings
     /\ Len(meters) = Len(Pay2Meters)) =>
        LET paid == {txn[c].premise_id : c \in TxnIds}
            row(c) == [premise_id |-> txn[c].premise_id, telegram_id |-> txn[c].telegram_id,
                       amount |-> txn[c].amount, receipt |-> txn[c].receipt]
        IN  /\ meters = [i \in Indices(Pay2Meters) |->
                           IF Pay2Meters[i].premise_id \in paid
                           THEN [Pay2Meters[i] EXCEPT
                                   !.paid_reading = Pay2Meters[i].last_reading,
                                   !.paid_date = Today]
                           ELSE Pay2Meters[i]]
            /\ payments \in {<<row(1), row(2)>>, <<row(2), row(1)>>}
            /\ invoices = [i \in Indices(Pay2Invoices) |->
                             IF Pay2Invoices[i].premise_id \in paid
                             THEN [Pay2Invoices[i] EXCEPT !.issued = 0,
                                                          !.issued_text = FALSE,
                                                          !.pay_date = Today]
                             ELSE Pay2Invoices[i]]

\* Both calls have returned, for premises 1 and 2, and the second started
\* while the first was between two of its store requests.
C25_Witness ==
    /\ \A c \in TxnIds : txn[c].op = "process_payment" /\ txn[c].pc = "returned"
    /\ {txn[c].premise_id : c \in TxnIds} = {1, 2}
    /\ \E c \in TxnIds : txn[c].overlap
    /\ readings = InitReadings
    /\ Len(meters) = Len(Pay2Meters)
    /\ \A i \in Indices(meters) : meters[i].paid_reading = meters[i].last_reading
    /\ \A i \in Indices(invoices) : invoices[i].issued = 0

(***************************************************************************)
(* C30  Step 1 of a payment is one write.                                  *)
(***************************************************************************)
\* C30: step 1 of a payment reads, for every meter row of its premise, the
\* last reading; a step changes the paid columns of the meters only as the
\* single write of step 1: that write sets, for every row the call read, the
\* paid reading to the last reading read in that step and the paid date to
\* today, leaves every other row as it was, and is not issued when the
\* premise has no meters; every other step, the failure of the call
\* included, leaves the paid columns of every meter untouched, so no state
\* has some but not all of the meters marked.
C30_MetersMarkedTogether ==
    [][/\ \A c \in TxnIds :
             (txn[c].pc = "idle" /\ txn'[c].pc = "meters_read") =>
                 /\ DOMAIN txn'[c].updates =
                       {i \in Indices(meters) : meters[i].premise_id = txn'[c].premise_id}
                 /\ \A i \in DOMAIN txn'[c].updates :
                       txn'[c].updates[i] = meters[i].last_reading
       /\ \/ \E c \in TxnIds :
                /\ txn[c].op = "process_payment"
                /\ txn[c].pc = "meters_read" /\ txn'[c].pc = "meters_written"
                /\ txn'[c].wrote = (DOMAIN txn[c].updates # {})
                /\ meters' = [i \in Indices(meters) |->
                                IF i \in DOMAIN txn[c].updates
                                THEN [meters[i] EXCEPT !.paid_reading = txn[c].updates[i],
                                                       !.paid_date = Today]
                                ELSE meters[i]]
          \/ \A i \in Indices(meters) :
                /\ meters'[i].paid_reading = meters[i].paid_reading
                /\ meters'[i].paid_date = meters[i].paid_date]_vars

\* Call 1 has made its write for premise 1 after a reading was saved behind
\* its read: both meters of the premise carry the readings it had read; call 2,
\* for a premise without meters, has passed step 1 without a write.
C30_Witness ==
    /\ txn[1].op = "process_payment" /\ txn[1].pc = "meters_written"
    /\ txn[1].premise_id = 1 /\ txn[1].wrote
    /\ \A i \in DOMAIN txn[1].updates : meters[i].paid_reading = txn[1].updates[i]
    /\ Cardinality(DOMAIN txn[1].updates) = 2
    /\ \E i \in DOMAIN txn[1].updates : meters[i].last_reading # meters[i].paid_reading
    /\ \A i \in Indices(meters) : meters[i].premise_id = 2 => meters[i].paid_date = NoDate
    /\ txn[2].op = "process_payment" /\ txn[2].pc = "meters_written"
    /\ txn[2].premise_id = 3 /\ ~txn[2].wrote

(***************************************************************************)
(* C26  Lookups of absent data.                                            *)
(***************************************************************************)
\* C26: a lookup of an absent premise, tenant, meter, invoice, tariff or
\* setting returns None and a lookup of a present one returns the record or
\* the cell; get_payment_details and get_readings_period return, when the
\* setting is absent, an outcome that no stored text and no stored day yields.
C26_NoDefaultForMissing ==
    /\ q.op = "get_premise" =>
          IF \E i \in Indices(q.records) : q.records[i].id = q.arg
          THEN q.out # <<>> /\ q.out[1].id = q.arg
          ELSE q.out = <<>>
    /\ q.op = "get_tenant" =>
          IF \E i \in Indices(q.records) : q.records[i].telegram_id = q.arg
          THEN q.out # <<>> /\ q.out[1].telegram_id = q.arg
          ELSE q.out = <<>>
    /\ q.op = "get_meter" =>
          IF \E i \in Indices(q.records) : q.records[i].id = q.arg
          THEN q.out # <<>> /\ q.out[1].id = q.arg
          ELSE q.out = <<>>
    /\ q.op = "get_invoice_for_premise" =>
          IF \E i \in Indices(q.records) : q.records[i].premise_id = q.arg
          THEN q.out # <<>> /\ q.out[1].premise_id = q.arg
          ELSE q.out = <<>>
    /\ q.op = "get_tariff_by_type" =>
          IF \E i \in Indices(q.records) : q.records[i].type = q.arg
          THEN q.out # <<>> /\ q.out[1].type = q.arg
          ELSE q.out = <<>>
    /\ q.op = "get_setting" => q.out = q.records[q.arg]
    /\ (q.op = "get_payment_details" /\ q.records.payment_details = <<>>) =>
          \A d \in SettingsInputs :
              d.payment_details \notin {<<>>, <<"">>} => get_payment_details(d) # q.out
    /\ (q.op = "get_readings_period" /\ q.records.readings_start_day = <<>>) =>
          \A d \in SettingsInputs :
              d.readings_start_day \notin {<<>>, <<<<>>>>} =>
                  get_readings_period(d)[1] # q.out[1]
    /\ (q.op = "get_readings_period" /\ q.records.readings_end_day = <<>>) =>
          \A d \in SettingsInputs :
              d.readings_end_day \notin {<<>>, <<<<>>>>} =>
                  get_readings_period(d)[2] # q.out[2]

(***************************************************************************)
(* C28  Boolean cells.                                                     *)
(***************************************************************************)
\* C28: get_all_tenants, get_owner and get_invoices_needing_push read a cell
\* as true exactly when it is the boolean true or a string equal to TRUE in
\* any letter case: get_all_tenants returns the rows whose is_owner is not
\* true, get_owner the first row whose is_owner is true, and
\* get_invoices_needing_push the rows whose need_push is true.
C28_UniformBooleans ==
    LET true(cell) == cell \in {"bTRUE", "TRUE", "true", "True"}
    IN  /\ q.op = "get_all_tenants" =>
              q.out = SelectSeq(q.records, LAMBDA r : ~true(r.is_owner))
        /\ q.op = "get_owner" =>
              IF \E i \in Indices(q.records) : true(q.records[i].is_owner)
              THEN /\ q.out # <<>> /\ true(q.out[1].is_owner)
                   /\ \A i \in 1..(q.out[1].telegram_id - 1) : ~true(q.records[i].is_owner)
              ELSE q.out = <<>>
        /\ q.op = "get_invoices_needing_push" =>
              q.out = SelectSeq(q.records, LAMBDA r : true(r.need_push))

(***************************************************************************)
(* C27  Non-numeric input.                                                 *)
(***************************************************************************)
\* C27: a call of update_tariff, save_reading or update_meter_last_reading
\* with a value that is not a number does not return normally and leaves the
\* store and the cache as they were.
C27_RejectsNonNumeric ==
    [][(/\ calls' = calls + 1
        /\ \/ lastOp'.op = "update_tariff" /\ lastOp'.a = NonNumeric
           \/ lastOp'.op \in {"save_reading", "update_meter_last_reading"}
              /\ lastOp'.b = NonNumeric) =>
            /\ ~lastOp'.ok
            /\ store' = store
            /\ cache' = cache]_vars

(***************************************************************************)
(* C29  Month rollover.                                                    *)
(***************************************************************************)
\* C29: the readings map a call is answered with, from the cache or freshly
\* built, holds only rows of the log whose date lies in the month in which
\* the call is answered, and a call answered from the cache is answered with
\* the entry of the key of that month; an entry built in month 1 answers no
\* call of month 2.
C29_MonthScopedMap ==
    \A c \in CallIds :
        (fetch[c].map /\ fetch[c].pc \in {"hit", "stored"}) =>
            /\ \A m \in DOMAIN fetch[c].data :
                  \A i \in Indices(fetch[c].data[m]) :
                      startswith(fetch[c].data[m][i].date, <<fetch[c].month>>)
            /\ fetch[c].pc = "hit" =>
                  fetch[c].key = (IF fetch[c].month = 1 THEN "readings_map_1"
                                  ELSE "readings_map_2")

\* Month 2: the entry built in month 1 is in the cache, not expired, and
\* holds a row of month 1; a call of month 2 has been answered with a map
\* without that row.
C29_Witness ==
    /\ month_now = 2
    /\ cache_hit(cache, "readings_map_1")
    /\ \E m \in DOMAIN cache["readings_map_1"].data :
          \E i \in Indices(cache["readings_map_1"].data[m]) :
              cache["readings_map_1"].data[m][i].date = <<1, 1>>
    /\ \E c \in CallIds :
          /\ fetch[c].map /\ fetch[c].pc \in {"hit", "stored"}
          /\ fetch[c].month = 2
          /\ fetch[c].key = "readings_map_2"
          /\ DOMAIN fetch[c].data = {}

(***************************************************************************)
(* C31  The frame of issue_invoice.                                        *)
(***************************************************************************)
\* C31: a step of issue_invoice(premise) changes nothing but the
\* issued-amount cell of the premise's invoice row: the need-push flag, the
\* payment date and the responsible party of the row, every other invoice
\* row and every other collection stay as they were, and
\* get_invoices_needing_push returns after the step the rows it returned
\* before it.
C31_IssueFrame ==
    [][(lastOp'.op = "issue_invoice" /\ invoices' # invoices) =>
          LET i == FirstIndex(invoices, LAMBDA r : r.premise_id = lastOp'.a)
              before == get_invoices_needing_push(InvoiceRecords)
              after == get_invoices_needing_push(InvoiceRecords')
          IN  /\ i # 0
              /\ invoices' = [invoices EXCEPT
                                ![i].issued = invoices'[i].issued,
                                ![i].issued_text = invoices'[i].issued_text]
              /\ {after[k].premise_id : k \in Indices(after)} =
                 {before[k].premise_id : k \in Indices(before)}]_<<invoices, lastOp>>
       /\ [][lastOp'.op = "issue_invoice" =>
                <<premises, tenants, meters, readings, payments, tariffs>>' =
                <<premises, tenants, meters, readings, payments, tariffs>>]_vars

\* issue_invoice has issued a positive amount for a premise whose row is
\* not flagged, and the sweep's list does not hold the premise.
C31_Witness ==
    /\ lastOp.op = "issue_invoice" /\ lastOp.ok
    /\ InvoiceRow(lastOp.a).issued > 0
    /\ InvoiceRow(lastOp.a).need_push = "i0"
    /\ \A k \in Indices(get_invoices_needing_push(InvoiceRecords)) :
          get_invoices_needing_push(InvoiceRecords)[k].premise_id # lastOp.a

(***************************************************************************)
(* C32  Invalidation across collections.                                   *)
(***************************************************************************)
\* C32: when save_reading, process_payment or update_tariff has returned
\* normally and nothing but the clock has moved since, the cached reads of
\* the meters and of the invoices return the records the store holds now,
\* with the tariffs, amounts and statuses derived from the rows just written.
C32_DerivedNotStale ==
    (lastOp.ok /\ lastOp.op \in {"save_reading", "process_payment", "update_tariff"}) =>
        /\ ReadResult("meters") = StoreRecords("meters")
        /\ ReadResult("invoices") = StoreRecords("invoices")

(***************************************************************************)
(* C33  Cache coherence under interleaving.                                *)
(***************************************************************************)
\* C33: in every state a valid cache entry of the readings log holds the
\* rows the store holds: the log changes only by the mutator that
\* invalidates the key, so an entry with other rows was fetched before the
\* last mutation that completed.
C33_NoStaleSnapshot ==
    cache_hit(cache, "readings") => cache["readings"].data = StoreRecords("readings")

(***************************************************************************)
(* C34  Invalidation after a partial failure.                              *)
(***************************************************************************)
\* C34: after mark_invoice_paid has failed with its issued-amount write
\* made, the cached read of the invoices returns the issued amounts the
\* store holds; after save_reading has failed with its row appended, the
\* cached read of the readings returns the rows the store holds.
C34_InvalidatedAfterPartialWrite ==
    /\ (lastOp.op = "mark_invoice_paid" /\ ~lastOp.ok) =>
          /\ Len(ReadResult("invoices")) = Len(invoices)
          /\ \A i \in Indices(invoices) :
                /\ ReadResult("invoices")[i].issued = invoices[i].issued
                /\ ReadResult("invoices")[i].issued_text = invoices[i].issued_text
    /\ (lastOp.op = "save_reading" /\ ~lastOp.ok) =>
          ReadResult("readings") = StoreRecords("readings")

(***************************************************************************)
(* C35  Bounded staleness of the readings map.                             *)
(***************************************************************************)
\* C35: a readings map that a call builds from the cached readings log is
\* stored with the age of that log: its entry carries the timestamp of the
\* entry it was built from, so the rows it serves were fetched from the
\* store less than CACHE_TTL before every call it answers.
C35_MapKeepsAgeOfRows ==
    [][\A c \in CallIds :
          (/\ ~InFlight(fetch[c])
           /\ cache_hit(cache, "readings")
           /\ ~cache_hit(cache, readings_map_key)
           /\ fetch'[c] # fetch[c]
           /\ fetch'[c].map /\ fetch'[c].pc = "stored") =>
              /\ cache_hit(cache', readings_map_key)
              /\ cache'[readings_map_key].data = fetch'[c].data
              /\ cache'[readings_map_key].time = cache["readings"].time]_vars

(***************************************************************************)
(* SpecAdd: add_premise and add_meter store call by store call.  _add runs *)
(* on an executor thread: sheet.get_all_records() and sheet.append_row()   *)
(* are two requests, and the requests of two callers interleave.           *)
(***************************************************************************)
MaxAdds == 2         \* rows added to a sheet by the stepwise add calls

\* new_id = max([r.get("id", 0) for r in records], default=0) + 1
new_id(rows) == MaxOf({rows[i].id : i \in Indices(rows)}) + 1

AddsInFlight(op) == Cardinality({c \in TxnIds : txn[c].op = op /\ txn[c].pc = "rows_read"})

\* add_premise._add: records = sheet.get_all_records(); new_id computed.
add_premise_read(c) ==
    /\ ~Busy(txn[c])
    /\ Len(premises) + AddsInFlight("add_premise") < Len(InitPremises) + MaxAdds
    /\ txn' = [txn EXCEPT ![c] = [op |-> "add_premise", pc |-> "rows_read",
                                  new_id |-> new_id(premises)]]
    /\ lastOp' = NoOp
    /\ UNCHANGED <<store, cache, now, pay, conv, calls, q, fetch, sweep, month_now>>

\* add_premise._add: sheet.append_row([new_id, name, address]).
add_premise_append(c) ==
    /\ txn[c].op = "add_premise" /\ txn[c].pc = "rows_read"
    /\ premises' = Append(premises, [id |-> txn[c].new_id])
    /\ txn' = [txn EXCEPT ![c].pc = "appended"]
    /\ lastOp' = NoOp
    /\ UNCHANGED <<tenants, meters, readings, invoices, payments, tariffs, cache, now,
                   pay, conv, calls, q, fetch, sweep, month_now>>

\* add_meter._add: records = sheet.get_all_records(); new_id computed.
add_meter_read(c, premise_id, type, responsible) ==
    /\ ~Busy(txn[c])
    /\ Len(meters) + AddsInFlight("add_meter") < Len(InitMeters) + MaxAdds
    /\ txn' = [txn EXCEPT ![c] = [op |-> "add_meter", pc |-> "rows_read",
                                  new_id |-> new_id(meters), premise_id |-> premise_id,
                                  type |-> type, responsible |-> responsible]]
    /\ lastOp' = NoOp
    /\ UNCHANGED <<store, cache, now, pay, conv, calls, q, fetch, sweep, month_now>>

\* add_meter._add: sheet.append_row([new_id, premise_id, ..., 0, "", 0, ""]).
add_meter_append(c) ==
    /\ txn[c].op = "add_meter" /\ txn[c].pc = "rows_read"
    /\ meters' = Append(meters, [id |-> txn[c].new_id,
                                 premise_id |-> txn[c].premise_id, type |-> txn[c].type,
                                 resp_readings |-> txn[c].responsible,
                                 resp_payment |-> txn[c].responsible,
                                 last_reading |-> 0, last_date |-> NoDate,
                                 paid_reading |-> 0, paid_date |-> NoDate])
    /\ txn' = [txn EXCEPT ![c].pc = "appended"]
    /\ lastOp' = NoOp
    /\ UNCHANGED <<premises, tenants, readings, invoices, payments, tariffs, cache, now,
                   pay, conv, calls, q, fetch, sweep, month_now>>

\* result = await self._run_sync(_add); invalidate_cache(key); return result.
add_return(c) ==
    /\ txn[c].op \in {"add_premise", "add_meter"} /\ txn[c].pc = "appended"
    /\ cache' = invalidate_cache(cache, IF txn[c].op = "add_premise" THEN "premises"
                                        ELSE "meters")
    /\ txn' = [txn EXCEPT ![c].pc = "returned"]
    /\ lastOp' = Ret(txn[c].op, txn[c].new_id, c, "", TRUE)
    /\ UNCHANGED <<store, now, pay, conv, calls, q, fetch, sweep, month_now>>

NextAdd ==
    \/ \E c \in TxnIds : add_premise_read(c)
    \/ \E c \in TxnIds : add_premise_append(c)
    \/ \E c \in TxnIds, p \in {1, 2}, r \in {1, 2} : add_meter_read(c, p, "electricity", r)
    \/ \E c \in TxnIds : add_meter_append(c)
    \/ \E c \in TxnIds : add_return(c)
    \/ \E key \in {"premises", "meters"} : free(get_all(key))
    \/ free(Tick)

SpecAdd == Init /\ [][NextAdd]_vars

(***************************************************************************)
(* C36  Identifier uniqueness under interleaved adds.                      *)
(***************************************************************************)
\* C36: after any sequence of add_premise and add_meter calls, interleaved
\* ones included, no two premises share an id and no two meters share an
\* id, and a call that returned gave the id of a row of its sheet.
C36_UniqueIds ==
    /\ \A i, j \in Indices(premises) : premises[i].id = premises[j].id => i = j
    /\ \A i, j \in Indices(meters) : meters[i].id = meters[j].id => i = j
    /\ \A c \in TxnIds :
          (txn[c].pc = "returned" /\ txn[c].op = "add_premise") =>
              \E i \in Indices(premises) : premises[i].id = txn[c].new_id
    /\ \A c \in TxnIds :
          (txn[c].pc = "returned" /\ txn[c].op = "add_meter") =>
              \E i \in Indices(meters) : meters[i].id = txn[c].new_id

(***************************************************************************)
(* SpecPayFlow: the payment conversation (bot/handlers/payments.py) next   *)
(* to the tenants' reading submissions.  conv[u] holds the stage and the   *)
(* user_data of user u: selected_premise_id, selected_invoice (the record  *)
(* get_invoice_for_premise returned) and receipt_photo.                    *)
(***************************************************************************)
\* pay_premise_callback: the invoice comes from the cached invoices; the
\* handler then reads the payment details and the premise's meters.
pay_premise_callback(u, premise_id) ==
    LET invoice == get_invoice_for_premise(ReadResult("invoices"), premise_id)
    IN  /\ NoPayment
        /\ IF invoice = <<>> \/ invoice[1].sum <= 0
           THEN /\ cache' = ReadCache(cache, "invoices")
                /\ conv' = [conv EXCEPT ![u] = NoConv]
           ELSE /\ cache' = ReadCache(ReadCache(ReadCache(cache, "invoices"),
                                                "settings"), "meters")
                /\ conv' = [conv EXCEPT ![u] =
                               [stage |-> "UPLOADING_RECEIPT",
                                selected_premise_id |-> premise_id,
                                selected_invoice |-> invoice[1],
                                receipt_photo |-> <<>>]]
        /\ lastOp' = NoOp
        /\ pay' = PayIdle
        /\ UNCHANGED <<store, now>>

\* receive_receipt_photo: the photo is kept in user_data for the confirmation.
receive_receipt_photo(u, photo) ==
    /\ conv[u].stage = "UPLOADING_RECEIPT"
    /\ conv' = [conv EXCEPT ![u].stage = "CONFIRMING_PAYMENT",
                            ![u].receipt_photo = <<photo>>]
    /\ lastOp' = NoOp
    /\ UNCHANGED <<store, cache, now, pay>>

\* confirm_payment_callback: get_tenant, then process_payment with
\* amount = invoice.get("Сумма", 0) of the invoice kept in user_data.
confirm_payment_callback(u) ==
    /\ conv[u].stage = "CONFIRMING_PAYMENT"
    /\ NoPayment
    /\ LET premise_id == conv[u].selected_premise_id
           amount == conv[u].selected_invoice.sum
           receipt_url == conv[u].receipt_photo[1]
       IN  /\ meters' = mark_meters_paid_rows(meters, premise_id)
           /\ payments' = save_payment_rows(payments, premise_id, u, amount, receipt_url)
           /\ invoices' = mark_invoice_paid_rows(invoices, premise_id)
           /\ cache' = invalidate_cache(invalidate_cache(ReadCache(cache, "tenants_raw"),
                                                         "meters"), "invoices")
           /\ lastOp' = Ret("process_payment", premise_id, amount, receipt_url, TRUE)
    /\ conv' = [conv EXCEPT ![u] = NoConv]
    /\ pay' = PayIdle
    /\ UNCHANGED <<premises, tenants, readings, tariffs, now>>

NextPayFlow ==
    \/ \E u \in TenantIds, p \in {1, 2} : free(pay_premise_callback(u, p))
    \/ \E u \in TenantIds : free(receive_receipt_photo(u, "r1"))
    \/ \E u \in TenantIds : Len(payments) < MaxPayments /\ free(confirm_payment_callback(u))
    \/ \E m \in {1, 3}, v \in ReadingValues :
          /\ Len(readings) < Len(InitReadings) + MaxReadings
          /\ v >= MeterRow(m).last_reading
          /\ free(save_reading(m, MeterRow(m).premise_id, MeterRow(m).resp_readings, v))
    \/ free(Tick)

SpecPayFlow == Init /\ [][NextPayFlow]_vars

(***************************************************************************)
(* C37  The logged amount is the amount the payment settles.               *)
(***************************************************************************)
\* C37: the amount of the row a payment appends to the payment log equals
\* the amount of the premise's invoice in the store at the moment
\* process_payment marks the premise's meters paid, so no reading is marked
\* paid without being part of the logged amount.
C37_LoggedAmountIsSettled ==
    [][Len(payments') > Len(payments) =>
          LET row == payments'[Len(payments')]
          IN  row.amount = InvoiceSum(InvoiceRow(row.premise_id))]_payments

(***************************************************************************)
(* SpecIssue: the owner's issue_invoice_callback (bot/handlers/owner.py)   *)
(* next to the cached reads and the tenants' reading submissions.          *)
(***************************************************************************)
\* issue_invoice_callback: the amount shown is invoice.get("Сумма", 0) of the
\* record get_invoice_for_premise returned before issue_invoice ran.  lastOp
\* keeps the shown amount (b), whether the tenant was sent the notification
\* (s) and the result of issue_invoice (ok).
issue_invoice_callback(premise_id) ==
    LET invoice == get_invoice_for_premise(ReadResult("invoices"), premise_id)
        success == issue_invoice_found(invoices, premise_id)
    IN  /\ NoPayment
        /\ IF invoice = <<>>
           THEN /\ cache' = ReadCache(cache, "invoices")
                /\ invoices' = invoices
                /\ lastOp' = Ret("issue_invoice_callback", premise_id, 0, "not found", FALSE)
           ELSE /\ invoices' = issue_invoice_rows(invoices, premise_id)
                /\ cache' = IF success
                            THEN ReadCache(ReadCache(
                                     issue_invoice_cache(ReadCache(cache, "invoices"), TRUE),
                                     "settings"), "meters")
                            ELSE ReadCache(cache, "invoices")
                /\ lastOp' = Ret("issue_invoice_callback", premise_id, invoice[1].sum,
                                 IF success THEN "notified" ELSE "failed", success)
        /\ pay' = PayIdle
        /\ UNCHANGED <<premises, tenants, meters, readings, payments, tariffs, now, conv>>

NextIssue ==
    \/ \E p \in PremiseIds : free(issue_invoice_callback(p))
    \/ \E key \in BillingKeys : free(get_all(key))
    \/ \E m \in {1, 3}, v \in ReadingValues :
          /\ Len(readings) < Len(InitReadings) + MaxReadings
          /\ v >= MeterRow(m).last_reading
          /\ free(save_reading(m, MeterRow(m).premise_id, MeterRow(m).resp_readings, v))
    \/ \E p \in {1, 2} : free(mark_invoice_paid(p))
    \/ free(Tick)

SpecIssue == Init /\ [][NextIssue]_vars

(***************************************************************************)
(* C38  The amount shown when an invoice is issued.                        *)
(***************************************************************************)
\* C38: issue_invoice_callback notifies the tenant only when issue_invoice
\* reported success, and the amount it shows to the owner and the tenant is
\* the issued amount issue_invoice wrote to the premise's row.
C38_ShownAmountIsIssued ==
    lastOp.op = "issue_invoice_callback" =>
        /\ lastOp.s = "notified" => lastOp.ok
        /\ lastOp.ok => /\ HasInvoice(lastOp.a)
                        /\ lastOp.b = InvoiceRow(lastOp.a).issued

(***************************************************************************)
(* SpecPush: the push sweep as the job queue keeps running it              *)
(* (run_repeating(interval=300)), with the need-push flag set in the sheet *)
(* from outside the bot while invoices snapshots are cached.  The flag is  *)
(* set up to FlagSetBy and the clock runs one TTL beyond it, so every      *)
(* snapshot taken before a flag was set can expire.                        *)
(***************************************************************************)
FlagSetBy == TickStep

FlagSet(premise_id) == InvoiceRow(premise_id).need_push \in {"i1", "s1", "bTRUE"}

\* A run has attempted a notification for the premise's invoice.
Attempted(premise_id) ==
    \E r \in RunIds : \E k \in Indices(sweep[r].sends) :
        sweep[r].sends[k].premise_id = premise_id

TickPush ==
    /\ now < FlagSetBy + CACHE_TTL
    /\ now' = now + TickStep
    /\ UNCHANGED <<store, cache, pay, conv, lastOp, calls, q, fetch, sweep, month_now, txn>>

\* The store-side rule or a manual edit flags an invoice: need_push = 1.
set_need_push(premise_id) ==
    /\ now <= FlagSetBy
    /\ ~FlagSet(premise_id)
    /\ invoices' = [invoices EXCEPT
                       ![FirstIndex(invoices, LAMBDA r : r.premise_id = premise_id)].need_push
                           = "i1"]
    /\ lastOp' = NoOp
    /\ UNCHANGED <<premises, tenants, meters, readings, payments, tariffs, cache, now, pay,
                   conv, calls, q, fetch, sweep, month_now, txn>>

\* The job queue starts the next run of invoice_push_check.
sweep_trigger(r) ==
    /\ sweep[r].pc \in {"done", "raised"}
    /\ sweep' = [sweep EXCEPT ![r] = NoRun]
    /\ lastOp' = NoOp
    /\ UNCHANGED <<store, cache, now, pay, conv, calls, q, fetch, month_now, txn>>

\* The runs follow one another: the overlap of two runs is not part of this
\* specification.
PushRuns == {1}

NextPush ==
    \/ \E r \in PushRuns : sweep_trigger(r)
    \/ \E r \in PushRuns : sweep_begin(r)
    \/ \E r \in PushRuns : sweep_details(r)
    \/ \E r \in PushRuns : sweep_meters(r)
    \/ \E r \in PushRuns : sweep_read_fails(r)
    \/ \E r \in PushRuns, ok \in BOOLEAN : sweep_send(r, ok)
    \/ \E r \in PushRuns : sweep_clear(r)
    \/ \E r \in PushRuns, written \in BOOLEAN : sweep_clear_fails(r, written)
    \/ \E p \in {1, 2} : set_need_push(p)
    \/ TickPush

\* The sweep keeps being triggered, time passes, and the store call of every
\* step succeeds eventually; a send may fail every time.
FairPush ==
    /\ WF_vars(TickPush)
    /\ \A r \in PushRuns :
          /\ WF_vars(sweep_trigger(r))
          /\ SF_vars(sweep_begin(r))
          /\ SF_vars(sweep_details(r))
          /\ SF_vars(sweep_meters(r))
          /\ WF_vars(\E ok \in BOOLEAN : sweep_send(r, ok))
          /\ SF_vars(sweep_clear(r))

SpecPush == InitSweep /\ [][NextPush]_vars /\ FairPush

NameCells == {"Office", "n101"}
is_text(cell) == cell # "n101"

\* The records of get_tenants_without_readings / get_tenants_with_unpaid:
\* the k-th has telegram id k and the names of its meters or premises.
TenantLists ==
    {[k \in Indices(names) |-> [telegram_id |-> k, names |-> names[k]]] :
        names \in SeqsUpTo(SeqsUpTo(NameCells, 2), 2)}

Days == {4, 5, 17, 21, 25, 26}

ReminderSettings == {dict \in SettingsInputs : dict["payment_details"] = <<"">>}

\* ", ".join(names): raises TypeError unless every item is a str.
join_raises(names) == \E i \in Indices(names) : ~is_text(names[i])

\* for tenant in tenants: try: <build the text>; await send_message(...)
\* except Exception: logger.error(...).  results[k] tells whether the send to
\* the k-th tenant succeeds; the list returned holds the send attempts.
RECURSIVE reminder_loop(_, _, _, _)
reminder_loop(list, results, k, acc) ==
    IF k > Len(list) THEN acc
    ELSE reminder_loop(list, results, k + 1,
                       IF join_raises(list[k].names) THEN acc
                       ELSE Append(acc, [telegram_id |-> list[k].telegram_id,
                                         ok |-> results[k]]))

InitRemind ==
    /\ premises = InitPremises
    /\ tenants = InitTenants
    /\ meters = InitMeters
    /\ readings = InitReadings
    /\ invoices = InitInvoices
    /\ payments = <<>>
    /\ tariffs = InitTariffs
    /\ cache = <<>>
    /\ now = 0
    /\ pay = PayIdle
    /\ conv = [u \in TenantIds |-> NoConv]
    /\ lastOp = NoOp
    /\ calls = 0
    /\ fetch = [c \in CallIds |-> NoCall]
    /\ sweep = [r \in RunIds |-> NoRun]
    /\ month_now = 1
    /\ txn = [c \in TxnIds |-> NoTxn]
    /\ \E today \in Days, dict \in ReminderSettings, list \in TenantLists :
          q = [kind |-> "reminders", today |-> today, settings |-> dict, list |-> list,
               op |-> "none", inside |-> FALSE, out |-> <<>>]

\* send_readings_reminders: nothing outside start_day <= today <= end_day.
send_readings_reminders(results) ==
    /\ q.op = "none"
    /\ LET period == get_readings_period(q.settings)
           inside == period[1] <= q.today /\ q.today <= period[2]
       IN  q' = [q EXCEPT !.op = "send_readings_reminders", !.inside = inside,
                          !.out = IF inside THEN reminder_loop(q.list, results, 1, <<>>)
                                  ELSE <<>>]
    /\ UNCHANGED <<store, cache, now, pay, conv, lastOp, calls, fetch, sweep, month_now, txn>>

\* send_payment_reminders: no window; get_payment_details, then the loop.
send_payment_reminders(results) ==
    /\ q.op = "none"
    /\ q' = [q EXCEPT !.op = "send_payment_reminders", !.inside = TRUE,
                      !.out = reminder_loop(q.list, results, 1, <<>>)]
    /\ UNCHANGED <<store, cache, now, pay, conv, lastOp, calls, fetch, sweep, month_now, txn>>

NextRemind ==
    \/ \E results \in [1..2 -> BOOLEAN] : send_readings_reminders(results)
    \/ \E results \in [1..2 -> BOOLEAN] : send_payment_reminders(results)

SpecRemind == InitRemind /\ [][NextRemind]_vars

(***************************************************************************)
(* C40  The reminder jobs.                                                 *)
(***************************************************************************)
\* C40: send_readings_reminders attempts no send outside the configured
\* window; inside it, and in send_payment_reminders, there is exactly one
\* send attempt for every tenant of the list, in the order of the list,
\* whatever the result of the other sends.
C40_OneAttemptPerTenant ==
    q.op \in {"send_readings_reminders", "send_payment_reminders"} =>
        IF q.inside
        THEN [k \in Indices(q.out) |-> q.out[k].telegram_id]
                 = [k \in Indices(q.list) |-> q.list[k].telegram_id]
        ELSE q.out = <<>>

=============================================================================
